---- MODULE Spec2Model ----
(***************************************************************************)
(* kubeflow-secrets: the identity-to-namespace authorization gateway.      *)
(*                                                                         *)
(* Strings of the program are sequences of one-character strings, so that  *)
(* trimming, lower-casing, splitting and sorting are computed rather than  *)
(* assumed.                                                                *)
(***************************************************************************)
EXTENDS Integers, Sequences, FiniteSets, TLC

VARIABLES
    profiles,   \* backend: the ownership records, namespace -> owner field
    secrets,    \* backend: <<namespace, name>> -> Secret object or Absent
    rv,         \* backend: the last resourceVersion handed out
    reqs,       \* the gateway's request handlers, one record per handler
    pin,        \* the arguments of a function under test
    pout        \* its result

vars == <<profiles, secrets, rv, reqs, pin, pout>>

gatewayVars == <<profiles, secrets, rv, reqs>>

(***************************************************************************)
(* Strings                                                                 *)
(***************************************************************************)
Quote == "\""

Separators == <<":", "|", "#">>

\* byte values of the characters the model uses (sort.Strings is bytewise)
CharCode(c) ==
    CASE c = " " -> 32
      [] c = Quote -> 34
      [] c = "#" -> 35
      [] c = "," -> 44
      [] c = "-" -> 45
      [] c = "." -> 46
      [] c = "1" -> 49
      [] c = "2" -> 50
      [] c = ":" -> 58
      [] c = "A" -> 65
      [] c = "a" -> 97
      [] c = "b" -> 98
      [] c = "g" -> 103
      [] c = "h" -> 104
      [] c = "n" -> 110
      [] c = "s" -> 115
      [] c = "x" -> 120
      [] c = "y" -> 121
      [] c = "|" -> 124

RECURSIVE StrLess(_, _)
StrLess(s, t) ==
    IF s = <<>> THEN t # <<>>
    ELSE IF t = <<>> THEN FALSE
    ELSE IF Head(s) = Head(t) THEN StrLess(Tail(s), Tail(t))
    ELSE CharCode(Head(s)) < CharCode(Head(t))

RECURSIVE TrimLeftSet(_, _)
TrimLeftSet(s, cut) ==
    IF s # <<>> /\ Head(s) \in cut THEN TrimLeftSet(Tail(s), cut) ELSE s

RECURSIVE TrimRightSet(_, _)
TrimRightSet(s, cut) ==
    IF s # <<>> /\ s[Len(s)] \in cut
    THEN TrimRightSet(SubSeq(s, 1, Len(s) - 1), cut)
    ELSE s

\* strings.Trim(v, cutset)
Trim(s, cut) == TrimRightSet(TrimLeftSet(s, cut), cut)

\* strings.TrimSpace
TrimSpace(s) == Trim(s, {" "})

ToLowerChar(c) == IF c = "A" THEN "a" ELSE c

\* strings.ToLower
ToLower(s) == [i \in 1..Len(s) |-> ToLowerChar(s[i])]

\* strings.LastIndex for a one-character separator: 0-based, -1 when absent
LastIndex(s, sep) ==
    LET at == {i \in 1..Len(s) : s[i] = sep}
    IN  IF at = {} THEN -1 ELSE (CHOOSE i \in at : \A j \in at : j <= i) - 1

Contains(seq, x) == \E i \in 1..Len(seq) : seq[i] = x

\* insertion of x into the ascending sequence sorted
RECURSIVE InsertSorted(_, _)
InsertSorted(sorted, x) ==
    IF sorted = <<>> THEN <<x>>
    ELSE IF StrLess(x, Head(sorted)) THEN <<x>> \o sorted
    ELSE <<Head(sorted)>> \o InsertSorted(Tail(sorted), x)

\* sort.Strings
RECURSIVE SortStrings(_)
SortStrings(seq) ==
    IF seq = <<>> THEN <<>>
    ELSE InsertSorted(SortStrings(Tail(seq)), Head(seq))

(***************************************************************************)
(* Identity Matcher                                                        *)
(***************************************************************************)
sanitizeForLog(v) == TrimSpace(Trim(v, {Quote}))

normalizeIdentity(v) == ToLower(sanitizeForLog(v))

\* the closure addSuffix of identityCandidates, on the candidate list so far
addSuffix(candidates, normalized, sep) ==
    LET idx == LastIndex(normalized, sep)
    IN  IF idx > -1 /\ idx + 1 < Len(normalized)
        THEN LET suffix == TrimSpace(SubSeq(normalized, idx + 2, Len(normalized)))
             IN  IF suffix = <<>> THEN candidates
                 ELSE IF Contains(candidates, suffix) THEN candidates
                 ELSE Append(candidates, suffix)
        ELSE candidates

\* identityCandidates without the third separator
identityCandidatesTwoSeparators(v) ==
    LET normalized == normalizeIdentity(v)
    IN  IF normalized = <<>> THEN <<>>
        ELSE addSuffix(addSuffix(<<normalized>>, normalized, ":"),
                       normalized, "|")

identityCandidates(v) ==
    LET normalized == normalizeIdentity(v)
    IN  IF normalized = <<>> THEN <<>>
        ELSE addSuffix(addSuffix(addSuffix(<<normalized>>, normalized, ":"),
                                 normalized, "|"),
                       normalized, "#")

identitiesMatch(a, b) ==
    IF Len(a) = 0 \/ Len(b) = 0 THEN FALSE
    ELSE \E i \in 1..Len(b) : Contains(a, b[i])

(***************************************************************************)
(* Error mapping                                                           *)
(*                                                                         *)
(* An error is a record [kind |-> ...]: "nil", the gateway's own sentinels *)
(* "profileNotFound" and "notManaged", the accessor error "nestedString",  *)
(* and the API status reasons of the backend: "forbidden", "alreadyExists",*)
(* "notFound", "unauthorized", "conflict", and "other" for every remaining *)
(* failure (timeout, internal error, transport).                           *)
(***************************************************************************)
NilErr == [kind |-> "nil"]

NoResult == [tag |-> "none"]

Err(k) == [kind |-> k]

StatusOK == 200
StatusCreated == 201
StatusBadRequest == 400
StatusUnauthorized == 401
StatusForbidden == 403
StatusNotFound == 404
StatusMethodNotAllowed == 405
StatusConflict == 409
StatusInternalServerError == 500

\* a response: status and the text of the "error" member (or "" on success)
Reply(status, msg) == [status |-> status, error |-> msg]

\* fmt.Sprintf("%s: %v", fallback, err)
Fallback(fallback, err) == <<fallback, err.kind>>

\* mapKubeError with the not-managed sentinel reported as forbidden
mapKubeErrorLeaksUnmanaged(err, fallback) ==
    IF err.kind = "notManaged" THEN Reply(StatusForbidden, "forbidden")
    ELSE IF err.kind = "forbidden" THEN Reply(StatusForbidden, "forbidden")
    ELSE IF err.kind = "alreadyExists" THEN Reply(StatusConflict, "already exists")
    ELSE IF err.kind = "notFound" THEN Reply(StatusNotFound, "not found")
    ELSE IF err.kind = "unauthorized" THEN Reply(StatusUnauthorized, "unauthorized")
    ELSE IF err.kind = "nil" THEN Reply(StatusOK, "")
    ELSE Reply(StatusInternalServerError, Fallback(fallback, err))

\* mapKubeError without the case of an unauthorized caller
mapKubeErrorNoUnauthorized(err, fallback) ==
    IF err.kind = "notManaged" THEN Reply(StatusNotFound, "not found")
    ELSE IF err.kind = "forbidden" THEN Reply(StatusForbidden, "forbidden")
    ELSE IF err.kind = "alreadyExists" THEN Reply(StatusConflict, "already exists")
    ELSE IF err.kind = "notFound" THEN Reply(StatusNotFound, "not found")
    ELSE IF err.kind = "nil" THEN Reply(StatusOK, "")
    ELSE Reply(StatusInternalServerError, Fallback(fallback, err))

mapKubeError(err, fallback) ==
    IF err.kind = "notManaged" THEN Reply(StatusNotFound, "not found")
    ELSE IF err.kind = "forbidden" THEN Reply(StatusForbidden, "forbidden")
    ELSE IF err.kind = "alreadyExists" THEN Reply(StatusConflict, "already exists")
    ELSE IF err.kind = "notFound" THEN Reply(StatusNotFound, "not found")
    ELSE IF err.kind = "unauthorized" THEN Reply(StatusUnauthorized, "unauthorized")
    ELSE IF err.kind = "nil" THEN Reply(StatusOK, "")
    ELSE Reply(StatusInternalServerError, Fallback(fallback, err))

mapNamespaceResolutionError(err) ==
    IF err.kind = "profileNotFound"
    THEN Reply(StatusForbidden, "no kubeflow profile found for user")
    ELSE mapKubeError(err, "failed to resolve user namespace")

(***************************************************************************)
(* Namespace Resolver                                                      *)
(*                                                                         *)
(* An ownership record is [name |-> string, owner |-> field], the field    *)
(* spec.owner.name being [kind |-> "missing"], [kind |-> "nonstring"] or   *)
(* [kind |-> "string", v |-> string].  The result of the list is           *)
(* [err |-> error, items |-> sequence of records].                         *)
(***************************************************************************)
OwnerMissing == [kind |-> "missing"]
OwnerNonString == [kind |-> "nonstring"]
OwnerString(v) == [kind |-> "string", v |-> v]

\* NestedString that reports a field of another type as not found
NestedStringLenient(profile) ==
    IF profile.owner.kind = "missing"
        THEN [v |-> <<>>, found |-> FALSE, err |-> NilErr]
    ELSE IF profile.owner.kind = "nonstring"
        THEN [v |-> <<>>, found |-> FALSE, err |-> NilErr]
    ELSE [v |-> profile.owner.v, found |-> TRUE, err |-> NilErr]

\* unstructured.NestedString(profile.Object, "spec", "owner", "name")
NestedString(profile) ==
    IF profile.owner.kind = "missing"
        THEN [v |-> <<>>, found |-> FALSE, err |-> NilErr]
    ELSE IF profile.owner.kind = "nonstring"
        THEN [v |-> <<>>, found |-> FALSE, err |-> Err("nestedString")]
    ELSE [v |-> profile.owner.v, found |-> TRUE, err |-> NilErr]

\* the loop of resolveUserNamespaces over profiles.Items, from owned so far
RECURSIVE collectOwned(_, _, _)
collectOwned(items, userCandidates, owned) ==
    IF items = <<>> THEN [err |-> NilErr, owned |-> owned]
    ELSE LET profile == Head(items)
             namespace == TrimSpace(profile.name)
             nested == NestedString(profile)
         IN  IF namespace = <<>>
                 THEN collectOwned(Tail(items), userCandidates, owned)
             ELSE IF nested.err # NilErr
                 THEN [err |-> nested.err, owned |-> <<>>]
             ELSE IF ~nested.found
                 THEN collectOwned(Tail(items), userCandidates, owned)
             ELSE IF identitiesMatch(userCandidates, identityCandidates(nested.v))
                 THEN collectOwned(Tail(items), userCandidates,
                                   Append(owned, namespace))
             ELSE collectOwned(Tail(items), userCandidates, owned)

\* resolveUserNamespaces that returns the matches in list order
resolveUserNamespacesUnsorted(listed, user) ==
    IF listed.err # NilErr THEN [err |-> listed.err, namespaces |-> <<>>]
    ELSE LET got == collectOwned(listed.items, identityCandidates(user), <<>>)
         IN  IF got.err # NilErr THEN [err |-> got.err, namespaces |-> <<>>]
             ELSE IF Len(got.owned) = 0
                 THEN [err |-> Err("profileNotFound"), namespaces |-> <<>>]
             ELSE [err |-> NilErr, namespaces |-> got.owned]

\* resolveUserNamespaces, given the result of the list of ownership records
resolveUserNamespaces(listed, user) ==
    IF listed.err # NilErr THEN [err |-> listed.err, namespaces |-> <<>>]
    ELSE LET got == collectOwned(listed.items, identityCandidates(user), <<>>)
         IN  IF got.err # NilErr THEN [err |-> got.err, namespaces |-> <<>>]
             ELSE IF Len(got.owned) = 0
                 THEN [err |-> Err("profileNotFound"), namespaces |-> <<>>]
             ELSE [err |-> NilErr, namespaces |-> SortStrings(got.owned)]

(***************************************************************************)
(* Identity Extractor                                                      *)
(***************************************************************************)
\* strings.Split(value, ","), from the part collected so far
RECURSIVE SplitFrom(_, _, _)
SplitFrom(rest, sep, part) ==
    IF rest = <<>> THEN <<part>>
    ELSE IF Head(rest) = sep THEN <<part>> \o SplitFrom(Tail(rest), sep, <<>>)
    ELSE SplitFrom(Tail(rest), sep, Append(part, Head(rest)))

Split(value, sep) == SplitFrom(value, sep, <<>>)

\* the inner loop of normalizeGroups over the parts of one header value
RECURSIVE addGroups(_, _)
addGroups(out, parts) ==
    IF parts = <<>> THEN out
    ELSE LET group == TrimSpace(Head(parts))
         IN  IF group = <<>> THEN addGroups(out, Tail(parts))
             ELSE IF Contains(out, group) THEN addGroups(out, Tail(parts))
             ELSE addGroups(Append(out, group), Tail(parts))

\* the outer loop of normalizeGroups over the header values
RECURSIVE collectGroups(_, _)
collectGroups(out, values) ==
    IF values = <<>> THEN out
    ELSE collectGroups(addGroups(out, Split(Head(values), ",")), Tail(values))

\* normalizeGroups without its final sort
normalizeGroupsUnsorted(values) == collectGroups(<<>>, values)

normalizeGroups(values) == SortStrings(collectGroups(<<>>, values))

\* the configured name of the user header, lower-cased by newServer
userHeaderName == "kubeflow-userid"

\* the message of the error of identityFromRequest
MissingHeader == "missing " \o userHeaderName \o " header"

\* identityFromRequest that takes the user header as it comes
identityFromRequestUnchecked(userHeader, groupsHeader) ==
    [user |-> TrimSpace(userHeader), groups |-> normalizeGroups(groupsHeader),
     err |-> NilErr]

\* identityFromRequest: the user header and the values of the groups header
identityFromRequest(userHeader, groupsHeader) ==
    LET user == TrimSpace(userHeader)
    IN  IF user = <<>>
        THEN [user |-> <<>>, groups |-> <<>>,
              err |-> [kind |-> "missingHeader", msg |-> MissingHeader]]
        ELSE [user |-> user, groups |-> normalizeGroups(groupsHeader),
              err |-> NilErr]

(***************************************************************************)
(* Impersonation Factory                                                   *)
(*                                                                         *)
(* A client is the identity its calls are executed as: AdminClient for the *)
(* gateway's own connection, [user, groups] for an impersonated one.       *)
(***************************************************************************)
AdminClient == [kind |-> "admin", user |-> <<>>, groups |-> <<>>]

NoClient == [kind |-> "none", user |-> <<>>, groups |-> <<>>]

\* newImpersonatedClient that keeps the base configuration's identity
newImpersonatedClientAsGateway(user, groups) == AdminClient

newImpersonatedClient(user, groups) ==
    [kind |-> "impersonated", user |-> user, groups |-> groups]

(***************************************************************************)
(* Go maps: [nil |-> BOOLEAN, kv |-> function, alloc |-> whose map it is].  *)
(* A map is a reference: alloc tells the maps of the decoded payload       *)
(* ("request") from those the program makes itself ("made"), so that a     *)
(* write into a map of the caller shows.                                   *)
(***************************************************************************)
EmptyKV == [k \in {} |-> <<>>]

NilMap == [nil |-> TRUE, kv |-> EmptyKV, alloc |-> "nil"]

\* make(map...) filled with f
MakeMap(f) == [nil |-> FALSE, kv |-> f, alloc |-> "made"]

\* a map that json.Unmarshal put into the payload
RequestMap(f) == [nil |-> FALSE, kv |-> f, alloc |-> "request"]

MapLen(m) == Cardinality(DOMAIN m.kv)

HasKey(m, k) == k \in DOMAIN m.kv

copyStringMap(in) == IF in.nil THEN NilMap ELSE MakeMap(in.kv)

managedByLabelKey == "managed-by"

managedByLabelValue == "kubeflow-secrets"

\* ensureManagedLabels that sets the label in the map it was given
ensureManagedLabelsInPlace(in) ==
    LET labels == IF in.nil THEN MakeMap(EmptyKV) ELSE in
    IN  [labels EXCEPT !.kv =
            [k \in DOMAIN labels.kv \cup {managedByLabelKey} |->
                IF k = managedByLabelKey THEN managedByLabelValue
                ELSE labels.kv[k]]]

ensureManagedLabels(in) ==
    LET labels == IF copyStringMap(in).nil THEN MakeMap(EmptyKV)
                  ELSE copyStringMap(in)
    IN  [labels EXCEPT !.kv =
            [k \in DOMAIN labels.kv \cup {managedByLabelKey} |->
                IF k = managedByLabelKey THEN managedByLabelValue
                ELSE labels.kv[k]]]

\* isManagedSecret accepting every labelled secret
isManagedSecretAnyLabels(secret) == ~secret.labels.nil

isManagedSecret(secret) ==
    IF secret.labels.nil THEN FALSE
    ELSE /\ HasKey(secret.labels, managedByLabelKey)
         /\ secret.labels.kv[managedByLabelKey] = managedByLabelValue

\* a label selector key=value, or NoSelector for an unfiltered list
NoSelector == [all |-> TRUE, key |-> "", value |-> ""]

managedLabelSelector ==
    [all |-> FALSE, key |-> managedByLabelKey, value |-> managedByLabelValue]

(***************************************************************************)
(* Secret Validator/Builder                                                *)
(*                                                                         *)
(* An upsert payload is [namespace, name, type, data, stringData, labels,  *)
(* annotations]; names and keys are strings of the model, types and        *)
(* base64 texts are atoms, decoded values are sequences of bytes.          *)
(***************************************************************************)
SecretTypeOpaque == "Opaque"
SecretTypeDockerConfigJson == "kubernetes.io/dockerconfigjson"
SecretTypeServiceAccountToken == "kubernetes.io/service-account-token"
SecretTypeBootstrapToken == "bootstrap.kubernetes.io/token"

DockerConfigJsonKey == <<".", "d">>

allowedTypes == {SecretTypeOpaque, SecretTypeDockerConfigJson}

blockedTypes == {SecretTypeServiceAccountToken, SecretTypeBootstrapToken}

LowerAlnum == {"a", "b", "g", "h", "n", "s", "x", "y", "1", "2"}

DNS1123SubdomainMaxLength == 253

\* one label of a DNS subdomain: [a-z0-9]([-a-z0-9]*[a-z0-9])?
IsDNS1123LabelPart(l) ==
    /\ l # <<>>
    /\ \A i \in 1..Len(l) : l[i] \in LowerAlnum \cup {"-"}
    /\ l[1] \in LowerAlnum
    /\ l[Len(l)] \in LowerAlnum

\* validation.IsDNS1123Subdomain(name) reports no error
IsDNS1123Subdomain(name) ==
    /\ Len(name) <= DNS1123SubdomainMaxLength
    /\ LET parts == Split(name, ".")
       IN  \A i \in 1..Len(parts) : IsDNS1123LabelPart(parts[i])

\* base64.StdEncoding on the texts the model uses: text, decoded bytes
\* ("YR==" carries non-zero trailing bits, which the decoder accepts)
B64Decodable ==
    {<<"", <<>>>>, <<"YQ==", <<97>>>>, <<"YR==", <<97>>>>, <<"Yg==", <<98>>>>,
     <<"/w==", <<255>>>>}

B64Canonical == {<<"", <<>>>>, <<"YQ==", <<97>>>>, <<"Yg==", <<98>>>>, <<"/w==", <<255>>>>}

\* base64.StdEncoding.DecodeString
DecodeString(text) ==
    IF \E p \in B64Decodable : p[1] = text
    THEN [err |-> NilErr, bytes |-> (CHOOSE p \in B64Decodable : p[1] = text)[2]]
    ELSE [err |-> Err("corruptInput"), bytes |-> <<>>]

\* base64.StdEncoding.EncodeToString
EncodeToString(bytes) == (CHOOSE p \in B64Canonical : p[2] = bytes)[1]

ModelChars == {" ", Quote, "#", ",", "-", ".", "1", "2", ":", "A", "a", "b", "g",
               "h", "n", "s", "x", "y", "|"}

\* []byte(s)
StringBytes(str) == [i \in 1..Len(str) |-> CharCode(str[i])]

\* utf8.Valid, on the bytes the model uses (ASCII, and the lone byte 0xFF)
Utf8Valid(bytes) == \A i \in 1..Len(bytes) : bytes[i] < 128

\* string(value) for valid bytes
BytesString(bytes) ==
    [i \in 1..Len(bytes) |-> CHOOSE c \in ModelChars : CharCode(c) = bytes[i]]

ValidationErr(msg) == [kind |-> "validation", msg |-> msg]

\* the loop over req.Data that names any key of the map when some entry fails
dataErrorsAnyKey(data) ==
    IF \A k \in DOMAIN data.kv :
            TrimSpace(k) # <<>> /\ DecodeString(data.kv[k]).err = NilErr
        THEN {}
    ELSE {IF TrimSpace(key) = <<>> THEN ValidationErr(<<"data contains an empty key">>)
          ELSE ValidationErr(<<"data is not valid base64", key>>) :
            key \in DOMAIN data.kv}

\* the loop of validateAndBuildSecret over req.Data: map iteration order is
\* not specified, so any entry that fails may be the one that is reported
dataErrors(data) ==
    {IF TrimSpace(key) = <<>> THEN ValidationErr(<<"data contains an empty key">>)
     ELSE ValidationErr(<<"data is not valid base64", key>>) :
        key \in {k \in DOMAIN data.kv :
                    \/ TrimSpace(k) = <<>>
                    \/ DecodeString(data.kv[k]).err # NilErr}}

decodedData(data) ==
    MakeMap([k \in DOMAIN data.kv |-> DecodeString(data.kv[k]).bytes])

NoSecret == [absent |-> TRUE]

\* the corev1.Secret that validateAndBuildSecret returns
BuiltSecret(req, secretType) ==
    [absent |-> FALSE,
     name |-> TrimSpace(req.name),
     namespace |-> TrimSpace(req.namespace),
     labels |-> ensureManagedLabels(req.labels),
     annotations |-> copyStringMap(req.annotations),
     type |-> secretType,
     data |-> decodedData(req.data),
     stringData |-> copyStringMap(req.stringData),
     resourceVersion |-> 0]

\* validateAndBuildSecret that consults the allow set before the blocked set
validateAndBuildSecretAllowFirst(req) ==
    LET namespace == TrimSpace(req.namespace)
        name == TrimSpace(req.name)
        secretType == IF req.type = "" THEN SecretTypeOpaque ELSE req.type
        fail(msg) == {[err |-> ValidationErr(msg), secret |-> NoSecret]}
    IN  IF namespace = <<>> THEN fail(<<"namespace is required">>)
        ELSE IF name = <<>> THEN fail(<<"name is required">>)
        ELSE IF ~IsDNS1123Subdomain(name) THEN fail(<<"invalid secret name">>)
        ELSE IF secretType \notin allowedTypes
            THEN fail(<<"secret type is not in allowed list", secretType>>)
        ELSE IF secretType \in blockedTypes
            THEN fail(<<"secret type is not allowed", secretType>>)
        ELSE IF MapLen(req.data) = 0 /\ MapLen(req.stringData) = 0
            THEN fail(<<"either data or stringData must be provided">>)
        ELSE IF dataErrors(req.data) # {}
            THEN {[err |-> e, secret |-> NoSecret] : e \in dataErrors(req.data)}
        ELSE IF /\ secretType = SecretTypeDockerConfigJson
                /\ ~HasKey(req.data, DockerConfigJsonKey)
                /\ ~HasKey(req.stringData, DockerConfigJsonKey)
            THEN fail(<<"dockerconfigjson secret requires key", DockerConfigJsonKey>>)
        ELSE {[err |-> NilErr, secret |-> BuiltSecret(req, secretType)]}

\* validateAndBuildSecret that asks for data before it looks at the type
validateAndBuildSecretDataFirst(req) ==
    LET namespace == TrimSpace(req.namespace)
        name == TrimSpace(req.name)
        secretType == IF req.type = "" THEN SecretTypeOpaque ELSE req.type
        fail(msg) == {[err |-> ValidationErr(msg), secret |-> NoSecret]}
    IN  IF namespace = <<>> THEN fail(<<"namespace is required">>)
        ELSE IF name = <<>> THEN fail(<<"name is required">>)
        ELSE IF ~IsDNS1123Subdomain(name) THEN fail(<<"invalid secret name">>)
        ELSE IF MapLen(req.data) = 0 /\ MapLen(req.stringData) = 0
            THEN fail(<<"either data or stringData must be provided">>)
        ELSE IF secretType \in blockedTypes
            THEN fail(<<"secret type is not allowed", secretType>>)
        ELSE IF secretType \notin allowedTypes
            THEN fail(<<"secret type is not in allowed list", secretType>>)
        ELSE IF dataErrors(req.data) # {}
            THEN {[err |-> e, secret |-> NoSecret] : e \in dataErrors(req.data)}
        ELSE IF /\ secretType = SecretTypeDockerConfigJson
                /\ ~HasKey(req.data, DockerConfigJsonKey)
                /\ ~HasKey(req.stringData, DockerConfigJsonKey)
            THEN fail(<<"dockerconfigjson secret requires key", DockerConfigJsonKey>>)
        ELSE {[err |-> NilErr, secret |-> BuiltSecret(req, secretType)]}

\* validateAndBuildSecret that looks for the dockerconfigjson key in data only
validateAndBuildSecretKeyInDataOnly(req) ==
    LET namespace == TrimSpace(req.namespace)
        name == TrimSpace(req.name)
        secretType == IF req.type = "" THEN SecretTypeOpaque ELSE req.type
        fail(msg) == {[err |-> ValidationErr(msg), secret |-> NoSecret]}
    IN  IF namespace = <<>> THEN fail(<<"namespace is required">>)
        ELSE IF name = <<>> THEN fail(<<"name is required">>)
        ELSE IF ~IsDNS1123Subdomain(name) THEN fail(<<"invalid secret name">>)
        ELSE IF secretType \in blockedTypes
            THEN fail(<<"secret type is not allowed", secretType>>)
        ELSE IF secretType \notin allowedTypes
            THEN fail(<<"secret type is not in allowed list", secretType>>)
        ELSE IF MapLen(req.data) = 0 /\ MapLen(req.stringData) = 0
            THEN fail(<<"either data or stringData must be provided">>)
        ELSE IF dataErrors(req.data) # {}
            THEN {[err |-> e, secret |-> NoSecret] : e \in dataErrors(req.data)}
        ELSE IF /\ secretType = SecretTypeDockerConfigJson
                /\ ~HasKey(req.data, DockerConfigJsonKey)
            THEN fail(<<"dockerconfigjson secret requires key", DockerConfigJsonKey>>)
        ELSE {[err |-> NilErr, secret |-> BuiltSecret(req, secretType)]}

\* validateAndBuildSecret: the set of results it may return
validateAndBuildSecret(req) ==
    LET namespace == TrimSpace(req.namespace)
        name == TrimSpace(req.name)
        secretType == IF req.type = "" THEN SecretTypeOpaque ELSE req.type
        fail(msg) == {[err |-> ValidationErr(msg), secret |-> NoSecret]}
    IN  IF namespace = <<>> THEN fail(<<"namespace is required">>)
        ELSE IF name = <<>> THEN fail(<<"name is required">>)
        ELSE IF ~IsDNS1123Subdomain(name) THEN fail(<<"invalid secret name">>)
        ELSE IF secretType \in blockedTypes
            THEN fail(<<"secret type is not allowed", secretType>>)
        ELSE IF secretType \notin allowedTypes
            THEN fail(<<"secret type is not in allowed list", secretType>>)
        ELSE IF MapLen(req.data) = 0 /\ MapLen(req.stringData) = 0
            THEN fail(<<"either data or stringData must be provided">>)
        ELSE IF dataErrors(req.data) # {}
            THEN {[err |-> e, secret |-> NoSecret] : e \in dataErrors(req.data)}
        ELSE IF /\ secretType = SecretTypeDockerConfigJson
                /\ ~HasKey(req.data, DockerConfigJsonKey)
                /\ ~HasKey(req.stringData, DockerConfigJsonKey)
            THEN fail(<<"dockerconfigjson secret requires key", DockerConfigJsonKey>>)
        ELSE {[err |-> NilErr, secret |-> BuiltSecret(req, secretType)]}

\* secretToDetail that leaves stringData empty
secretToDetailNoStrings(secret) ==
    [name |-> secret.name,
     namespace |-> secret.namespace,
     type |-> secret.type,
     labels |-> copyStringMap(secret.labels),
     annotations |-> copyStringMap(secret.annotations),
     data |-> MakeMap([k \in DOMAIN secret.data.kv |->
                         EncodeToString(secret.data.kv[k])]),
     stringData |-> MakeMap(EmptyKV)]

\* secretToDetail
secretToDetail(secret) ==
    [name |-> secret.name,
     namespace |-> secret.namespace,
     type |-> secret.type,
     labels |-> copyStringMap(secret.labels),
     annotations |-> copyStringMap(secret.annotations),
     data |-> MakeMap([k \in DOMAIN secret.data.kv |->
                         EncodeToString(secret.data.kv[k])]),
     stringData |-> MakeMap([k \in {x \in DOMAIN secret.data.kv :
                                      Utf8Valid(secret.data.kv[x])} |->
                               BytesString(secret.data.kv[k])])]

(***************************************************************************)
(* The backend: ownership records and Secrets                              *)
(***************************************************************************)
MaxRV == 2

Ns1 == <<"n", "1">>
Ns2 == <<"n", "2">>
Ns3 == <<"n", "-">>

Alice == <<"a">>
Bob == <<"b">>

StoreNamespaces == {Ns1, Ns2}

S1 == <<"s">>
S2 == <<"s", "2">>

StoreKeys == {<<ns, S1>> : ns \in StoreNamespaces}

NoRecord == [kind |-> "norecord"]

\* a list answered from the records as they were when the gateway started
ListProfilesCached(err) ==
    IF err # NilErr THEN [err |-> err, items |-> <<>>]
    ELSE [err |-> NilErr,
          items |-> <<[name |-> Ns1, owner |-> OwnerString(Alice)],
                      [name |-> Ns2, owner |-> OwnerString(<<"x", ":", "B">>)]>>]

\* the result of adminDynamic.Resource(profileGVR).List, in name order
ListProfiles(err) ==
    IF err # NilErr THEN [err |-> err, items |-> <<>>]
    ELSE [err |-> NilErr,
          items |->
            (IF profiles[Ns1] = NoRecord THEN <<>>
             ELSE <<[name |-> Ns1, owner |-> profiles[Ns1]]>>)
            \o
            (IF profiles[Ns2] = NoRecord THEN <<>>
             ELSE <<[name |-> Ns2, owner |-> profiles[Ns2]]>>)]

Lookup(namespace, name) ==
    IF <<namespace, name>> \in DOMAIN secrets THEN secrets[<<namespace, name>>]
    ELSE NoSecret

\* the object carries the label managed-by=kubeflow-secrets
HasManagementLabel(obj) ==
    /\ ~obj.absent
    /\ ~obj.labels.nil
    /\ "managed-by" \in DOMAIN obj.labels.kv
    /\ obj.labels.kv["managed-by"] = "kubeflow-secrets"

\* what a call finds at its target at the moment the backend serves it
Found(namespace, name) ==
    IF Lookup(namespace, name).absent THEN "absent"
    ELSE IF HasManagementLabel(Lookup(namespace, name)) THEN "managed"
    ELSE "unmanaged"

\* the backend matches an object against a label selector
Selects(sel, obj) ==
    \/ sel.all
    \/ /\ ~obj.labels.nil
       /\ sel.key \in DOMAIN obj.labels.kv
       /\ obj.labels.kv[sel.key] = sel.value

\* the backend stores stringData merged into data, under a new version
Stored(obj, version) ==
    [obj EXCEPT
        !.data = MakeMap([k \in DOMAIN obj.data.kv \cup DOMAIN obj.stringData.kv |->
                            IF k \in DOMAIN obj.stringData.kv
                            THEN StringBytes(obj.stringData.kv[k])
                            ELSE obj.data.kv[k]]),
        !.stringData = NilMap,
        !.resourceVersion = version]

\* failures the backend may answer to the list of ownership records
ListFailures == {Err("forbidden"), Err("notFound"), Err("unauthorized"), Err("other")}

\* failures the backend may answer to any call of an impersonated client,
\* whatever the state: access control, or anything else
CallFailures == {Err("forbidden"), Err("other")}

\* Secrets(ns).Get
GetResult(namespace, name, failure) ==
    IF failure # NilErr THEN [err |-> failure, secret |-> NoSecret]
    ELSE IF Lookup(namespace, name).absent
        THEN [err |-> Err("notFound"), secret |-> NoSecret]
    ELSE [err |-> NilErr, secret |-> Lookup(namespace, name)]

\* Secrets(ns).Create: the error the backend answers
CreateErr(namespace, obj, failure) ==
    IF failure # NilErr THEN failure
    ELSE IF ~Lookup(namespace, obj.name).absent THEN Err("alreadyExists")
    ELSE NilErr

\* Secrets(ns).Update: a version of 0 stands for none (unconditional update)
UpdateErr(namespace, obj, failure) ==
    IF failure # NilErr THEN failure
    ELSE IF Lookup(namespace, obj.name).absent THEN Err("notFound")
    ELSE IF /\ obj.resourceVersion # 0
            /\ obj.resourceVersion # Lookup(namespace, obj.name).resourceVersion
        THEN Err("conflict")
    ELSE NilErr

\* Secrets(ns).Delete with empty DeleteOptions: no precondition
DeleteErr(namespace, name, failure) ==
    IF failure # NilErr THEN failure
    ELSE IF Lookup(namespace, name).absent THEN Err("notFound")
    ELSE NilErr

\* Secrets(ns).List: the selected objects of the namespace
ListResult(namespace, sel, failure) ==
    IF failure # NilErr THEN [err |-> failure, items |-> {}]
    ELSE [err |-> NilErr,
          items |-> {secrets[k] :
                       k \in {x \in DOMAIN secrets :
                                /\ x[1] = namespace
                                /\ ~secrets[x].absent
                                /\ Selects(sel, secrets[x])}}]

(***************************************************************************)
(* Request Scoper                                                          *)
(*                                                                         *)
(* A request is [route, method, path, userHeader, groupsHeader, qNamespace,*)
(* qNs, hXNamespace, hNamespace]: route is the pattern the mux matched,    *)
(* path the result of parseSecretPath, the last four the query parameters  *)
(* namespace and ns and the headers x-kubeflow-namespace and               *)
(* kubeflow-namespace.                                                     *)
(***************************************************************************)
RECURSIVE firstNonEmpty(_)
firstNonEmpty(values) ==
    IF values = <<>> THEN <<>>
    ELSE IF TrimSpace(Head(values)) # <<>> THEN Head(values)
    ELSE firstNonEmpty(Tail(values))

requestedNamespace(r) ==
    firstNonEmpty(<<TrimSpace(r.qNamespace), TrimSpace(r.qNs),
                    TrimSpace(r.hXNamespace), TrimSpace(r.hNamespace)>>)

\* resolveNamespaceFromRequest that trusts the namespace the request names
resolveNamespaceFromRequestTrusting(r, allowedNamespaces) ==
    IF Len(allowedNamespaces) = 0 THEN [ns |-> <<>>, ok |-> FALSE]
    ELSE IF requestedNamespace(r) = <<>>
        THEN [ns |-> allowedNamespaces[1], ok |-> TRUE]
    ELSE [ns |-> requestedNamespace(r), ok |-> TRUE]

\* resolveNamespaceFromRequest that defaults to the last namespace of the list
resolveNamespaceFromRequestLast(r, allowedNamespaces) ==
    IF Len(allowedNamespaces) = 0 THEN [ns |-> <<>>, ok |-> FALSE]
    ELSE IF requestedNamespace(r) = <<>>
        THEN [ns |-> allowedNamespaces[Len(allowedNamespaces)], ok |-> TRUE]
    ELSE IF Contains(allowedNamespaces, requestedNamespace(r))
        THEN [ns |-> requestedNamespace(r), ok |-> TRUE]
    ELSE [ns |-> <<>>, ok |-> FALSE]

resolveNamespaceFromRequest(r, allowedNamespaces) ==
    IF Len(allowedNamespaces) = 0 THEN [ns |-> <<>>, ok |-> FALSE]
    ELSE IF requestedNamespace(r) = <<>>
        THEN [ns |-> allowedNamespaces[1], ok |-> TRUE]
    ELSE IF Contains(allowedNamespaces, requestedNamespace(r))
        THEN [ns |-> requestedNamespace(r), ok |-> TRUE]
    ELSE [ns |-> <<>>, ok |-> FALSE]

NoBody == [kind |-> "none"]

NoReply == [status |-> 0, error |-> "", body |-> NoBody]

Failure(reply) == [status |-> reply.status, error |-> reply.error, body |-> NoBody]

Success(status, body) == [status |-> status, error |-> "", body |-> body]

\* a backend call: what was called, as whom, on what, what it found at its
\* target when the backend served it, and the error it returned
Call(kind, client, namespace, name, sel, hit, err) ==
    [kind |-> kind, as |-> client, namespace |-> namespace, name |-> name,
     sel |-> sel, hit |-> hit, err |-> err]

\* the list of ownership records, always through the gateway's own connection
ProfilesCall(err) == Call("ListProfiles", AdminClient, <<>>, <<>>, NoSelector, "none", err)

\* userContext, given the result the list of ownership records would have:
\* listed is consulted only when the identity was extracted
userContext(r, listed) ==
    LET id == identityFromRequest(r.userHeader, r.groupsHeader)
        impClient == newImpersonatedClient(id.user, id.groups)
        resolved == resolveUserNamespaces(listed, id.user)
        chosen == resolveNamespaceFromRequest(r, resolved.namespaces)
        none == [ok |-> FALSE, client |-> NoClient, allowed |-> <<>>, ns |-> <<>>,
                 issued |-> <<>>, reply |-> NoReply]
    IN  IF id.err # NilErr
            THEN [none EXCEPT !.reply =
                    Failure(Reply(StatusUnauthorized, id.err.msg))]
        ELSE IF resolved.err # NilErr
            THEN [none EXCEPT !.client = impClient,
                              !.issued = <<ProfilesCall(listed.err)>>,
                              !.reply = Failure(mapNamespaceResolutionError(resolved.err))]
        ELSE IF ~chosen.ok
            THEN [none EXCEPT !.client = impClient,
                              !.allowed = resolved.namespaces,
                              !.issued = <<ProfilesCall(listed.err)>>,
                              !.reply = Failure(Reply(StatusForbidden,
                                    "requested namespace is not owned by current user"))]
        ELSE [ok |-> TRUE, client |-> impClient, allowed |-> resolved.namespaces,
              ns |-> chosen.ns, issued |-> <<ProfilesCall(listed.err)>>,
              reply |-> NoReply]

(***************************************************************************)
(* HTTP handlers                                                           *)
(*                                                                         *)
(* A handler runs one request at a time.  Each action is one backend call  *)
(* together with the handler's own code up to its next backend call; the   *)
(* first action of a request also takes the request in.  Handlers share    *)
(* nothing but the backend.                                                *)
(***************************************************************************)
NoRequest ==
    [route |-> "none", method |-> "", path |-> [err |-> FALSE, name |-> <<>>, sub |-> ""],
     userHeader |-> <<>>, groupsHeader |-> <<>>, qNamespace |-> <<>>, qNs |-> <<>>,
     hXNamespace |-> <<>>, hNamespace |-> <<>>, body |-> [bad |-> TRUE]]

NoCall == [kind |-> "none", namespace |-> <<>>, name |-> <<>>, obj |-> NoSecret,
           sel |-> NoSelector]

Pending(kind, namespace, name, obj, sel) ==
    [kind |-> kind, namespace |-> namespace, name |-> name, obj |-> obj, sel |-> sel]

Idle ==
    [pc |-> "idle", r |-> NoRequest, op |-> "none", client |-> NoClient,
     allowed |-> <<>>, ns |-> <<>>, pend |-> NoCall, existing |-> NoSecret,
     issued |-> <<>>, disturbed |-> FALSE, resp |-> NoReply]

\* the request is answered
Done(h, resp) == [h EXCEPT !.pc = "done", !.pend = NoCall, !.resp = resp]

\* the request goes on to its next backend call
Calling(h, pend) == [h EXCEPT !.pc = "call", !.pend = pend]

\* the handler after userContext
Scoped(r, op, uc) ==
    [Idle EXCEPT !.r = r, !.op = op, !.client = uc.client, !.allowed = uc.allowed,
                 !.ns = uc.ns, !.issued = uc.issued]

SecretNames == {S1}

RequestLines ==
    {<<"namespaces", "GET">>, <<"namespaces", "POST">>,
     <<"secrets", "GET">>, <<"secrets", "POST">>, <<"secrets", "DELETE">>}

ParsedPaths ==
    {[err |-> TRUE, name |-> <<>>, sub |-> ""],
     [err |-> FALSE, name |-> S1, sub |-> ""],
     [err |-> FALSE, name |-> S1, sub |-> "events"],
     [err |-> FALSE, name |-> S1, sub |-> "yaml"],
     [err |-> FALSE, name |-> S1, sub |-> "exec"]}

ByNameLines ==
    {<<"GET", p>> : p \in ParsedPaths}
    \cup {<<"PUT", p>> : p \in {q \in ParsedPaths : ~q.err /\ q.sub \in {"", "events"}}}
    \cup {<<"DELETE", p>> : p \in {q \in ParsedPaths : ~q.err /\ q.sub = ""}}

\* user header and groups header values as they arrive
IdentityHeaders ==
    {<<<<>>, <<>>>>,
     <<<<" ">>, <<>>>>,
     <<<<" ", "a">>, << <<"h", ",", " ", "g">>, <<"g", ",">> >> >>,
     <<Bob, <<>>>>}

\* query parameters namespace and ns, headers x-kubeflow-namespace and
\* kubeflow-namespace
NamespaceHints ==
    {<<<<>>, <<>>, <<>>, <<>>>>,
     <<Ns1, <<>>, <<>>, <<>>>>,
     <<Ns2, <<>>, <<>>, <<>>>>,
     <<<<" ">>, <<>>, Ns2, Ns1>>}

\* the bodies a caller may send; BadJSON does not decode (an empty body
\* does not either)
BadJSON == [bad |-> TRUE]

PayloadsNamed(names) ==
    [bad : {FALSE},
     namespace : {<<>>, <<" ", "n", "1">>, Ns2},
     name : names,
     type : {""},
     data : {NilMap},
     stringData : {RequestMap([k \in {<<"x">>} |-> <<"b">>])},
     labels : {NilMap, RequestMap([k \in {managedByLabelKey} |-> "other"])},
     annotations : {NilMap}]

CreatePayloads == {BadJSON} \cup PayloadsNamed({S1, <<"A">>})

UpdatePayloads == {BadJSON} \cup PayloadsNamed({<<>>, S1, S2})

Requests(lines, bodies) ==
    {[route |-> l[1], method |-> l[2], path |-> l[3],
      userHeader |-> i[1], groupsHeader |-> i[2],
      qNamespace |-> n[1], qNs |-> n[2], hXNamespace |-> n[3], hNamespace |-> n[4],
      body |-> b] :
        l \in lines, i \in IdentityHeaders, n \in NamespaceHints, b \in bodies}

NamespacesRequests ==
    Requests({<<l[1], l[2], NoRequest.path>> : l \in {x \in RequestLines : x[1] = "namespaces"}},
             {BadJSON})

SecretsRequests ==
    Requests({<<l[1], l[2], NoRequest.path>> :
                l \in {x \in RequestLines : x[1] = "secrets" /\ x[2] # "POST"}},
             {BadJSON})
    \cup Requests({<<"secrets", "POST", NoRequest.path>>}, CreatePayloads)

\* a body comes with PUT /api/secrets/{name}
CarriesUpdate(l) == l[1] = "PUT" /\ ~l[2].err /\ l[2].sub = ""

ByNameRequests ==
    Requests({<<"secretByName", l[1], l[2]>> : l \in {x \in ByNameLines : ~CarriesUpdate(x)}},
             {BadJSON})
    \cup Requests({<<"secretByName", l[1], l[2]>> : l \in {x \in ByNameLines : CarriesUpdate(x)}},
                  UpdatePayloads)

\* handleNamespaces
ServeNamespaces(i) ==
    /\ reqs[i].pc = "idle"
    /\ \E r \in NamespacesRequests, failure \in {NilErr} \cup CallFailures :
        LET id == identityFromRequest(r.userHeader, r.groupsHeader)
            listed == ListProfiles(failure)
            resolved == resolveUserNamespaces(listed, id.user)
            h == [Idle EXCEPT !.r = r, !.op = "namespaces"]
        IN  reqs' = [reqs EXCEPT ![i] =
                IF r.method # "GET"
                    THEN Done(h, Failure(Reply(StatusMethodNotAllowed, "method not allowed")))
                ELSE IF id.err # NilErr
                    THEN Done(h, Failure(Reply(StatusUnauthorized, id.err.msg)))
                ELSE IF resolved.err # NilErr
                    THEN Done([h EXCEPT !.issued = <<ProfilesCall(failure)>>],
                              Failure(mapNamespaceResolutionError(resolved.err)))
                ELSE Done([h EXCEPT !.issued = <<ProfilesCall(failure)>>,
                                    !.allowed = resolved.namespaces],
                          Success(StatusOK, [kind |-> "namespaces",
                                             namespaces |-> resolved.namespaces]))]
    /\ UNCHANGED <<profiles, secrets, rv, pin, pout>>

\* handleSecretsList up to its List call
listStart(h, r) ==
    IF TrimSpace(r.qNamespace) # <<>> /\ TrimSpace(r.qNamespace) # h.ns
    THEN {Done(h, Failure(Reply(StatusForbidden, "cross-namespace access is not allowed")))}
    ELSE {Calling(h, Pending("List", h.ns, <<>>, NoSecret, managedLabelSelector))}

\* handleSecretCreate up to its Create call, for the body p
createStart(h, p) ==
    LET seen == h
    IN  IF p.bad
            THEN {Done(seen, Failure(Reply(StatusBadRequest, "invalid JSON payload")))}
        ELSE IF TrimSpace(p.namespace) # <<>> /\ TrimSpace(p.namespace) # h.ns
            THEN {Done(seen, Failure(Reply(StatusForbidden,
                                           "cross-namespace access is not allowed")))}
        ELSE {IF built.err # NilErr
                  THEN Done(seen, Failure(Reply(StatusBadRequest, built.err.msg)))
              ELSE Calling(seen, Pending("Create", built.secret.namespace,
                                         built.secret.name, built.secret, NoSelector)) :
                built \in validateAndBuildSecret(
                            [p EXCEPT !.namespace = h.ns,
                                      !.labels = ensureManagedLabels(p.labels)])}

\* handleSecrets on one of the given requests
ServeSecretsOf(i, requests) ==
    /\ reqs[i].pc = "idle"
    /\ \E r \in requests, failure \in {NilErr} \cup CallFailures :
        LET id == identityFromRequest(r.userHeader, r.groupsHeader)
            uc == userContext(r, ListProfiles(failure))
            op == IF r.method = "GET" THEN "list"
                  ELSE IF r.method = "POST" THEN "create" ELSE "none"
            h == Scoped(r, op, uc)
        IN  \E next \in
                (IF ~uc.ok THEN {Done(h, uc.reply)}
                 ELSE IF r.method = "GET" THEN listStart(h, r)
                 ELSE IF r.method = "POST"
                     THEN createStart(h, r.body)
                 ELSE {Done(h, Failure(Reply(StatusMethodNotAllowed,
                                             "method not allowed")))}) :
                reqs' = [reqs EXCEPT ![i] = next]
    /\ UNCHANGED <<profiles, secrets, rv, pin, pout>>

\* handleSecrets
ServeSecrets(i) == ServeSecretsOf(i, SecretsRequests)

\* the operation handleSecretByName dispatches to, "" for none
byNameOp(r) ==
    IF r.path.sub = ""
        THEN (CASE r.method = "GET" -> "get"
                [] r.method = "PUT" -> "update"
                [] r.method = "DELETE" -> "delete"
                [] OTHER -> "")
    ELSE IF r.path.sub = "events" THEN (IF r.method = "GET" THEN "events" ELSE "")
    ELSE IF r.path.sub = "yaml" THEN (IF r.method = "GET" THEN "yaml" ELSE "")
    ELSE ""

\* handleSecretByName on one of the given requests: every operation begins
\* with getManagedSecret
ServeSecretByNameOf(i, requests) ==
    /\ reqs[i].pc = "idle"
    /\ \E r \in requests, failure \in {NilErr} \cup CallFailures :
        LET uc == userContext(r, ListProfiles(failure))
            op == IF r.path.err THEN "none"
                  ELSE IF byNameOp(r) = "" THEN "none" ELSE byNameOp(r)
            h == Scoped(r, op, uc)
        IN  reqs' = [reqs EXCEPT ![i] =
                IF ~uc.ok THEN Done(h, uc.reply)
                ELSE IF r.path.err
                    THEN Done(h, Failure(Reply(StatusBadRequest, "invalid path")))
                ELSE IF r.path.sub \notin {"", "events", "yaml"}
                    THEN Done(h, Failure(Reply(StatusBadRequest, "invalid path")))
                ELSE IF byNameOp(r) = ""
                    THEN Done(h, Failure(Reply(StatusMethodNotAllowed,
                                               "method not allowed")))
                ELSE Calling(h, Pending("Get", h.ns, r.path.name, NoSecret, NoSelector))]
    /\ UNCHANGED <<profiles, secrets, rv, pin, pout>>

\* handleSecretByName
ServeSecretByName(i) == ServeSecretByNameOf(i, ByNameRequests)

\* the handler with the call it has just made added to its record
Issued(h, kind, hit, err) ==
    [h EXCEPT !.issued = Append(h.issued,
        Call(kind, h.client, h.pend.namespace, h.pend.name, h.pend.sel, hit, err))]

\* getManagedSecret that hands on whatever the Get returned
getManagedSecretUnchecked(got) ==
    IF got.err # NilErr THEN [err |-> got.err, secret |-> NoSecret]
    ELSE got

\* getManagedSecret, on the result of the Get
getManagedSecret(got) ==
    IF got.err # NilErr THEN [err |-> got.err, secret |-> NoSecret]
    ELSE IF ~isManagedSecret(got.secret)
        THEN [err |-> Err("notManaged"), secret |-> NoSecret]
    ELSE got

\* the items of handleSecretsList, sorted by name
RECURSIVE listItems(_, _)
listItems(names, objs) ==
    IF names = <<>> THEN <<>>
    ELSE LET sec == CHOOSE o \in objs : o.name = Head(names)
         IN  <<[name |-> sec.name, namespace |-> sec.namespace, type |-> sec.type]>>
             \o listItems(Tail(names), objs)

RECURSIVE SetToSeq(_)
SetToSeq(set) ==
    IF set = {} THEN <<>>
    ELSE LET x == CHOOSE y \in set : TRUE IN <<x>> \o SetToSeq(set \ {x})

\* handleSecretsList from its List call on
BackendList(i) ==
    /\ reqs[i].pc = "call"
    /\ reqs[i].pend.kind = "List"
    /\ \E failure \in {NilErr} \cup CallFailures :
        LET h == reqs[i]
            res == ListResult(h.pend.namespace, h.pend.sel, failure)
            hit == IF \E o \in res.items : ~HasManagementLabel(o) THEN "unmanaged"
                   ELSE "managed"
            after == Issued(h, "List", hit, res.err)
        IN  reqs' = [reqs EXCEPT ![i] =
                IF res.err # NilErr
                    THEN Done(after, Failure(mapKubeError(res.err, "failed to list secrets")))
                ELSE Done(after, Success(StatusOK,
                        [kind |-> "list",
                         items |-> listItems(SortStrings(SetToSeq({o.name : o \in res.items})),
                                             res.items)]))]
    /\ UNCHANGED <<profiles, secrets, rv, pin, pout>>

\* handleSecretCreate from its Create call on
BackendCreate(i) ==
    /\ reqs[i].pc = "call"
    /\ reqs[i].pend.kind = "Create"
    /\ \E failure \in {NilErr} \cup CallFailures :
        LET h == reqs[i]
            err == CreateErr(h.pend.namespace, h.pend.obj, failure)
            created == Stored(h.pend.obj, rv + 1)
            after == Issued(h, "Create", Found(h.pend.namespace, h.pend.name), err)
        IN  IF err # NilErr
            THEN /\ reqs' = [reqs EXCEPT ![i] =
                        Done(after, Failure(mapKubeError(err, "failed to create secret")))]
                 /\ UNCHANGED <<secrets, rv>>
            ELSE /\ rv < MaxRV
                 /\ reqs' = [reqs EXCEPT ![i] =
                        Done(after, Success(StatusCreated,
                            [kind |-> "upsert", name |-> created.name,
                             namespace |-> created.namespace, type |-> created.type]))]
                 /\ secrets' = [secrets EXCEPT ![<<h.pend.namespace, h.pend.name>>] = created]
                 /\ rv' = rv + 1
    /\ UNCHANGED <<profiles, pin, pout>>

\* handleSecretUpdate that writes into the namespace in use whatever namespace
\* the payload names
updateStartReplacing(h, existing, p) ==
    LET seen == [h EXCEPT !.existing = existing]
        secretName == h.pend.name
    IN  IF p.bad
            THEN {Done(seen, Failure(Reply(StatusBadRequest, "invalid JSON payload")))}
        ELSE IF TrimSpace(p.name) # <<>> /\ TrimSpace(p.name) # secretName
            THEN {Done(seen, Failure(Reply(StatusBadRequest,
                                           "secret name in payload does not match path")))}
        ELSE {IF built.err # NilErr
                  THEN Done(seen, Failure(Reply(StatusBadRequest, built.err.msg)))
              ELSE Calling(seen, Pending("Update", h.ns, built.secret.name,
                        [built.secret EXCEPT !.resourceVersion = existing.resourceVersion],
                        NoSelector)) :
                built \in validateAndBuildSecret(
                    [p EXCEPT !.namespace = h.ns,
                              !.name = secretName,
                              !.labels = ensureManagedLabels(
                                    IF p.labels.nil THEN copyStringMap(existing.labels)
                                    ELSE p.labels),
                              !.annotations =
                                    IF p.annotations.nil
                                    THEN copyStringMap(existing.annotations)
                                    ELSE p.annotations])}

\* handleSecretUpdate that sends the built object without the version it read
updateStartUnversioned(h, existing, p) ==
    LET seen == [h EXCEPT !.existing = existing]
        secretName == h.pend.name
    IN  IF p.bad
            THEN {Done(seen, Failure(Reply(StatusBadRequest, "invalid JSON payload")))}
        ELSE IF TrimSpace(p.namespace) # <<>> /\ TrimSpace(p.namespace) # h.ns
            THEN {Done(seen, Failure(Reply(StatusForbidden,
                                           "cross-namespace access is not allowed")))}
        ELSE IF TrimSpace(p.name) # <<>> /\ TrimSpace(p.name) # secretName
            THEN {Done(seen, Failure(Reply(StatusBadRequest,
                                           "secret name in payload does not match path")))}
        ELSE {IF built.err # NilErr
                  THEN Done(seen, Failure(Reply(StatusBadRequest, built.err.msg)))
              ELSE Calling(seen, Pending("Update", h.ns, built.secret.name,
                        built.secret,
                        NoSelector)) :
                built \in validateAndBuildSecret(
                    [p EXCEPT !.namespace = h.ns,
                              !.name = secretName,
                              !.labels = ensureManagedLabels(
                                    IF p.labels.nil THEN copyStringMap(existing.labels)
                                    ELSE p.labels),
                              !.annotations =
                                    IF p.annotations.nil
                                    THEN copyStringMap(existing.annotations)
                                    ELSE p.annotations])}

\* handleSecretUpdate that lets a name in the payload stand
updateStartPayloadName(h, existing, p) ==
    LET seen == [h EXCEPT !.existing = existing]
        secretName == h.pend.name
    IN  IF p.bad
            THEN {Done(seen, Failure(Reply(StatusBadRequest, "invalid JSON payload")))}
        ELSE IF TrimSpace(p.namespace) # <<>> /\ TrimSpace(p.namespace) # h.ns
            THEN {Done(seen, Failure(Reply(StatusForbidden,
                                           "cross-namespace access is not allowed")))}
        ELSE {IF built.err # NilErr
                  THEN Done(seen, Failure(Reply(StatusBadRequest, built.err.msg)))
              ELSE Calling(seen, Pending("Update", h.ns, built.secret.name,
                        [built.secret EXCEPT !.resourceVersion = existing.resourceVersion],
                        NoSelector)) :
                built \in validateAndBuildSecret(
                    [p EXCEPT !.namespace = h.ns,
                              !.name = IF TrimSpace(p.name) = <<>> THEN secretName ELSE p.name,
                              !.labels = ensureManagedLabels(
                                    IF p.labels.nil THEN copyStringMap(existing.labels)
                                    ELSE p.labels),
                              !.annotations =
                                    IF p.annotations.nil
                                    THEN copyStringMap(existing.annotations)
                                    ELSE p.annotations])}

\* handleSecretUpdate that builds from the payload's labels and annotations only
updateStartClearing(h, existing, p) ==
    LET seen == [h EXCEPT !.existing = existing]
        secretName == h.pend.name
    IN  IF p.bad
            THEN {Done(seen, Failure(Reply(StatusBadRequest, "invalid JSON payload")))}
        ELSE IF TrimSpace(p.namespace) # <<>> /\ TrimSpace(p.namespace) # h.ns
            THEN {Done(seen, Failure(Reply(StatusForbidden,
                                           "cross-namespace access is not allowed")))}
        ELSE IF TrimSpace(p.name) # <<>> /\ TrimSpace(p.name) # secretName
            THEN {Done(seen, Failure(Reply(StatusBadRequest,
                                           "secret name in payload does not match path")))}
        ELSE {IF built.err # NilErr
                  THEN Done(seen, Failure(Reply(StatusBadRequest, built.err.msg)))
              ELSE Calling(seen, Pending("Update", h.ns, built.secret.name,
                        [built.secret EXCEPT !.resourceVersion = existing.resourceVersion],
                        NoSelector)) :
                built \in validateAndBuildSecret(
                    [p EXCEPT !.namespace = h.ns,
                              !.name = secretName,
                              !.labels = ensureManagedLabels(p.labels)])}

\* handleSecretUpdate between getManagedSecret and its Update call, for body p
updateStart(h, existing, p) ==
    LET seen == [h EXCEPT !.existing = existing]
        secretName == h.pend.name
    IN  IF p.bad
            THEN {Done(seen, Failure(Reply(StatusBadRequest, "invalid JSON payload")))}
        ELSE IF TrimSpace(p.namespace) # <<>> /\ TrimSpace(p.namespace) # h.ns
            THEN {Done(seen, Failure(Reply(StatusForbidden,
                                           "cross-namespace access is not allowed")))}
        ELSE IF TrimSpace(p.name) # <<>> /\ TrimSpace(p.name) # secretName
            THEN {Done(seen, Failure(Reply(StatusBadRequest,
                                           "secret name in payload does not match path")))}
        ELSE {IF built.err # NilErr
                  THEN Done(seen, Failure(Reply(StatusBadRequest, built.err.msg)))
              ELSE Calling(seen, Pending("Update", h.ns, built.secret.name,
                        [built.secret EXCEPT !.resourceVersion = existing.resourceVersion],
                        NoSelector)) :
                built \in validateAndBuildSecret(
                    [p EXCEPT !.namespace = h.ns,
                              !.name = secretName,
                              !.labels = ensureManagedLabels(
                                    IF p.labels.nil THEN copyStringMap(existing.labels)
                                    ELSE p.labels),
                              !.annotations =
                                    IF p.annotations.nil
                                    THEN copyStringMap(existing.annotations)
                                    ELSE p.annotations])}

\* getManagedSecret and what the handler does with its result, up to the
\* handler's next backend call
BackendGet(i) ==
    /\ reqs[i].pc = "call"
    /\ reqs[i].pend.kind = "Get"
    /\ \E failure \in {NilErr} \cup CallFailures :
        LET h == reqs[i]
            got == GetResult(h.pend.namespace, h.pend.name, failure)
            res == getManagedSecret(got)
            after == Issued(h, "Get", Found(h.pend.namespace, h.pend.name), got.err)
            fallback == CASE h.op = "get" -> "failed to get secret"
                          [] h.op = "events" -> "failed to get secret events"
                          [] h.op = "yaml" -> "failed to get secret yaml"
                          [] h.op = "update" -> "failed to update secret"
                          [] h.op = "delete" -> "failed to delete secret"
        IN  \E next \in
                (IF res.err # NilErr
                     THEN {Done(after, Failure(mapKubeError(res.err, fallback)))}
                 ELSE IF h.op = "get"
                     THEN {Done(after, Success(StatusOK,
                            [kind |-> "detail", detail |-> secretToDetail(res.secret)]))}
                 ELSE IF h.op = "yaml"
                     THEN {Done(after, Success(StatusOK,
                            [kind |-> "yaml", secret |-> res.secret]))}
                 ELSE IF h.op = "events"
                     THEN {Calling(after, Pending("ListEvents", h.ns, h.pend.name,
                                                  NoSecret, NoSelector))}
                 ELSE IF h.op = "update"
                     THEN updateStart(after, res.secret, h.r.body)
                 ELSE {Calling(after, Pending("Delete", h.ns, h.pend.name,
                                              NoSecret, NoSelector))}) :
                reqs' = [reqs EXCEPT ![i] = next]
    /\ UNCHANGED <<profiles, secrets, rv, pin, pout>>

\* handleSecretEvents from its Events(ns).List call on
BackendListEvents(i) ==
    /\ reqs[i].pc = "call"
    /\ reqs[i].pend.kind = "ListEvents"
    /\ \E failure \in {NilErr} \cup CallFailures :
        LET h == reqs[i]
            after == Issued(h, "ListEvents", Found(h.pend.namespace, h.pend.name), failure)
        IN  reqs' = [reqs EXCEPT ![i] =
                IF failure # NilErr
                    THEN Done(after, Failure(mapKubeError(failure, "failed to list events")))
                ELSE Done(after, Success(StatusOK,
                        [kind |-> "events", namespace |-> h.pend.namespace,
                         name |-> h.pend.name]))]
    /\ UNCHANGED <<profiles, secrets, rv, pin, pout>>

\* handleSecretUpdate from its Update call on
BackendUpdateUpTo(i, maxVersion) ==
    /\ reqs[i].pc = "call"
    /\ reqs[i].pend.kind = "Update"
    /\ \E failure \in {NilErr} \cup CallFailures :
        LET h == reqs[i]
            err == UpdateErr(h.pend.namespace, h.pend.obj, failure)
            updated == Stored(h.pend.obj, rv + 1)
            after == Issued(h, "Update", Found(h.pend.namespace, h.pend.name), err)
        IN  IF err # NilErr
            THEN /\ reqs' = [reqs EXCEPT ![i] =
                        Done(after, Failure(mapKubeError(err, "failed to update secret")))]
                 /\ UNCHANGED <<secrets, rv>>
            ELSE /\ rv < maxVersion
                 /\ reqs' = [reqs EXCEPT ![i] =
                        Done(after, Success(StatusOK,
                            [kind |-> "upsert", name |-> updated.name,
                             namespace |-> updated.namespace, type |-> updated.type]))]
                 /\ secrets' = [secrets EXCEPT ![<<h.pend.namespace, h.pend.name>>] = updated]
                 /\ rv' = rv + 1
    /\ UNCHANGED <<profiles, pin, pout>>

BackendUpdate(i) == BackendUpdateUpTo(i, MaxRV)

\* handleSecretDelete from its Delete call on
BackendDelete(i) ==
    /\ reqs[i].pc = "call"
    /\ reqs[i].pend.kind = "Delete"
    /\ \E failure \in {NilErr} \cup CallFailures :
        LET h == reqs[i]
            err == DeleteErr(h.pend.namespace, h.pend.name, failure)
            after == Issued(h, "Delete", Found(h.pend.namespace, h.pend.name), err)
        IN  IF err # NilErr
            THEN /\ reqs' = [reqs EXCEPT ![i] =
                        Done(after, Failure(mapKubeError(err, "failed to delete secret")))]
                 /\ UNCHANGED secrets
            ELSE /\ reqs' = [reqs EXCEPT ![i] =
                        Done(after, Success(StatusOK,
                            [kind |-> "deleted", name |-> h.pend.name,
                             namespace |-> h.ns]))]
                 /\ secrets' = [secrets EXCEPT ![<<h.pend.namespace, h.pend.name>>] = NoSecret]
    /\ UNCHANGED <<profiles, rv, pin, pout>>

\* writeJSON has written the reply and the handler returns
Return(i) ==
    /\ reqs[i].pc = "done"
    /\ reqs' = [reqs EXCEPT ![i] = Idle]
    /\ UNCHANGED <<profiles, secrets, rv, pin, pout>>

(***************************************************************************)
(* Other actors on the backend                                             *)
(***************************************************************************)
\* the label maps another actor may give a Secret
ForeignLabels ==
    {NilMap,
     MakeMap([k \in {managedByLabelKey} |-> "other"]),
     MakeMap([k \in {managedByLabelKey} |-> managedByLabelValue])}

ForeignSecret(namespace, name, labels, version) ==
    [absent |-> FALSE, name |-> name, namespace |-> namespace, labels |-> labels,
     annotations |-> NilMap, type |-> SecretTypeOpaque,
     data |-> MakeMap([k \in {<<"x">>} |-> <<97>>]), stringData |-> NilMap,
     resourceVersion |-> version]

\* the requests in flight have seen the backend change under them
Disturb(rs) ==
    [i \in DOMAIN rs |-> IF rs[i].pc = "call" THEN [rs[i] EXCEPT !.disturbed = TRUE]
                         ELSE rs[i]]

\* another actor creates or replaces a Secret (kubectl, a controller)
ExternalWrite ==
    /\ rv < MaxRV
    /\ \E labels \in ForeignLabels :
        secrets' = [secrets EXCEPT ![<<Ns1, S1>>] = ForeignSecret(Ns1, S1, labels, rv + 1)]
    /\ rv' = rv + 1
    /\ reqs' = Disturb(reqs)
    /\ UNCHANGED <<profiles, pin, pout>>

\* another actor deletes a Secret
ExternalDelete ==
    /\ ~secrets[<<Ns1, S1>>].absent
    /\ secrets' = [secrets EXCEPT ![<<Ns1, S1>>] = NoSecret]
    /\ reqs' = Disturb(reqs)
    /\ UNCHANGED <<profiles, rv, pin, pout>>

\* the profile controller changes the ownership records
ExternalProfileChange ==
    /\ \E owner \in {OwnerString(Alice), OwnerString(<<"x", ":", "B">>)} :
        /\ profiles[Ns2] # owner
        /\ profiles' = [profiles EXCEPT ![Ns2] = owner]
    /\ UNCHANGED <<secrets, rv, reqs, pin, pout>>

Handlers == {1}

Init ==
    /\ profiles = [ns \in StoreNamespaces |->
                     IF ns = Ns1 THEN OwnerString(Alice)
                     ELSE OwnerString(<<"x", ":", "B">>)]
    /\ secrets = [k \in StoreKeys |-> NoSecret]
    /\ rv = 0
    /\ reqs = [i \in Handlers |-> Idle]
    /\ pin = <<>>
    /\ pout = NoResult

Next ==
    \/ \E i \in DOMAIN reqs : ServeNamespaces(i)
    \/ \E i \in DOMAIN reqs : ServeSecrets(i)
    \/ \E i \in DOMAIN reqs : ServeSecretByName(i)
    \/ \E i \in DOMAIN reqs : BackendList(i)
    \/ \E i \in DOMAIN reqs : BackendCreate(i)
    \/ \E i \in DOMAIN reqs : BackendGet(i)
    \/ \E i \in DOMAIN reqs : BackendListEvents(i)
    \/ \E i \in DOMAIN reqs : BackendUpdate(i)
    \/ \E i \in DOMAIN reqs : BackendDelete(i)
    \/ \E i \in DOMAIN reqs : Return(i)
    \/ ExternalWrite
    \/ ExternalDelete
    \/ ExternalProfileChange

Spec == Init /\ [][Next]_vars

(***************************************************************************)
(* Functions under test: the arguments are drawn in Init, the action       *)
(* applies the function.                                                   *)
(***************************************************************************)
\* all strings over alphabet of length at most n
RECURSIVE StringsUpTo(_, _)
StringsUpTo(alphabet, n) ==
    IF n = 0 THEN {<<>>}
    ELSE LET shorter == StringsUpTo(alphabet, n - 1)
         IN  shorter \cup {Append(s, c) : s \in shorter, c \in alphabet}

MaxBaseLen == 2

BaseAlphabet == {"a", "A", " ", Quote, ":", "|"}

BaseValues == StringsUpTo(BaseAlphabet, MaxBaseLen)

\* what an identity provider puts in front of the base value
IdentityPrefixes ==
    {<<>>, <<"x", ":">>, <<"x", "#">>, <<"x", ":", "y", "|">>}

IdleGateway ==
    /\ profiles = <<>>
    /\ secrets = <<>>
    /\ rv = 0
    /\ reqs = <<>>

InitIdentity ==
    /\ IdleGateway
    /\ pin \in [p1 : IdentityPrefixes, b1 : BaseValues,
                p2 : IdentityPrefixes, b2 : BaseValues]
    /\ pout = NoResult

\* resolveUserNamespaces, line 75: the caller against one record's owner
ApplyIdentitiesMatch ==
    /\ pout = NoResult
    /\ "p1" \in DOMAIN pin
    /\ pout' = [tag |-> "match",
                v |-> identitiesMatch(identityCandidates(pin.p1 \o pin.b1),
                                      identityCandidates(pin.p2 \o pin.b2))]
    /\ UNCHANGED <<gatewayVars, pin>>

NextIdentity == ApplyIdentitiesMatch

SpecIdentity == InitIdentity /\ [][NextIdentity]_vars

(***************************************************************************)
(* The Namespace Resolver under test                                       *)
(***************************************************************************)
MaxProfiles == 3

\* record names as the list may return them (the blank ones are skipped)
RecordNames == {<<" ">>, Ns1, Ns2, Ns3, <<" ", "n", "1">>}

OwnerFields ==
    {OwnerMissing, OwnerNonString, OwnerString(<<" ">>), OwnerString(Alice),
     OwnerString(<<"x", ":", "A">>), OwnerString(Bob)}

CallerNames == {Alice, <<"y", "#", "a">>, Bob}

ProfileRecords == [name : RecordNames, owner : OwnerFields]

\* the lists of at most n records with pairwise different names
RECURSIVE ProfileLists(_)
ProfileLists(n) ==
    IF n = 0 THEN {<<>>}
    ELSE LET shorter == ProfileLists(n - 1)
         IN  shorter \cup
             {Append(l, r) : l \in {x \in shorter : Len(x) = n - 1},
                             r \in ProfileRecords}

DistinctNames(l) ==
    \A i, j \in 1..Len(l) : i # j => TrimSpace(l[i].name) # TrimSpace(l[j].name)

InitResolve ==
    /\ IdleGateway
    /\ \/ pin \in [user : CallerNames,
                   listed : [err : {NilErr},
                             items : {l \in ProfileLists(MaxProfiles) :
                                         DistinctNames(l)}]]
       \/ pin \in [user : CallerNames,
                   listed : [err : ListFailures, items : {<<>>}]]
    /\ pout = NoResult

\* resolveUserNamespaces and the mapping of its error to a response
ApplyResolve ==
    /\ pout = NoResult
    /\ "listed" \in DOMAIN pin
    /\ LET res == resolveUserNamespaces(pin.listed, pin.user)
       IN  pout' = [tag |-> "resolve", err |-> res.err,
                    namespaces |-> res.namespaces,
                    reply |-> IF res.err = NilErr THEN Reply(StatusOK, "")
                              ELSE mapNamespaceResolutionError(res.err)]
    /\ UNCHANGED <<gatewayVars, pin>>

NextResolve == ApplyResolve

SpecResolve == InitResolve /\ [][NextResolve]_vars

(***************************************************************************)
(* Identity normalization under test                                       *)
(***************************************************************************)
MaxCoreLen == 2

\* identity values proper: letters of either case, no blank at either end
Cores ==
    {c \in StringsUpTo({"a", "A", " "}, MaxCoreLen) :
        c # <<>> /\ Head(c) # " " /\ c[Len(c)] # " "}

\* what may surround a value: blanks outside the quotes, a pair of double
\* quotes or none, blanks inside the quotes
Decorations ==
    [outerLeft : {<<>>, <<" ">>}, quoted : BOOLEAN, innerLeft : {<<>>, <<" ">>},
     innerRight : {<<>>, <<" ">>}, outerRight : {<<>>, <<" ">>}]

Decorated(core, d) ==
    d.outerLeft \o (IF d.quoted THEN <<Quote>> ELSE <<>>) \o d.innerLeft
    \o core
    \o d.innerRight \o (IF d.quoted THEN <<Quote>> ELSE <<>>) \o d.outerRight

InitNormalize ==
    /\ IdleGateway
    /\ pin \in {x \in [c1 : Cores, d1 : Decorations, c2 : Cores, d2 : Decorations] :
                    ToLower(x.c1) = ToLower(x.c2)}
    /\ pout = NoResult

\* identityCandidates, line 131: each of the two values is normalized, and
\* the first result once more
ApplyNormalizeIdentity ==
    /\ pout = NoResult
    /\ "c1" \in DOMAIN pin
    /\ LET n1 == normalizeIdentity(Decorated(pin.c1, pin.d1))
       IN  pout' = [tag |-> "normalize",
                    n1 |-> n1,
                    n2 |-> normalizeIdentity(Decorated(pin.c2, pin.d2)),
                    again |-> normalizeIdentity(n1)]
    /\ UNCHANGED <<gatewayVars, pin>>

NextNormalize == ApplyNormalizeIdentity

SpecNormalize == InitNormalize /\ [][NextNormalize]_vars

(***************************************************************************)
(* The group normalization under test                                      *)
(***************************************************************************)
MaxGroupValues == 2

MaxGroupLen == 3

\* the values one occurrence of the groups header may carry
GroupValues == StringsUpTo({"g", "h", ",", " "}, MaxGroupLen)

\* the occurrences of the groups header of one request
RECURSIVE GroupHeaders(_)
GroupHeaders(n) ==
    IF n = 0 THEN {<<>>}
    ELSE LET fewer == GroupHeaders(n - 1)
         IN  fewer \cup {Append(l, v) : l \in {x \in fewer : Len(x) = n - 1},
                                        v \in GroupValues}

Reversed(l) == [i \in 1..Len(l) |-> l[Len(l) + 1 - i]]

InitGroups ==
    /\ IdleGateway
    /\ pin \in [values : GroupHeaders(MaxGroupValues)]
    /\ pout = NoResult

\* identityFromRequest, line 94: normalizeGroups on the header values, and on
\* the same values in another order, twice over, and on its own result
ApplyNormalizeGroups ==
    /\ pout = NoResult
    /\ DOMAIN pin = {"values"}
    /\ LET out == normalizeGroups(pin.values)
       IN  pout' = [tag |-> "groups",
                    out |-> out,
                    reversed |-> normalizeGroups(Reversed(pin.values)),
                    doubled |-> normalizeGroups(pin.values \o pin.values),
                    again |-> normalizeGroups(out)]
    /\ UNCHANGED <<gatewayVars, pin>>

NextGroups == ApplyNormalizeGroups

SpecGroups == InitGroups /\ [][NextGroups]_vars

(***************************************************************************)
(* The Secret Validator/Builder under test                                 *)
(***************************************************************************)
ValidateNamespaces == {<<>>, <<" ">>, Ns1}

ValidateNames == {<<>>, S1, <<"A">>, <<" ", "s">>}

ValidateTypes ==
    {"", SecretTypeOpaque, SecretTypeDockerConfigJson, SecretTypeServiceAccountToken,
     SecretTypeBootstrapToken, "example.com/custom"}

\* data maps: base64 texts by key; "!" is no base64
DataMaps ==
    {NilMap,
     RequestMap(EmptyKV),
     RequestMap(<<"x">> :> "YQ=="),
     RequestMap(<<"x">> :> "YR=="),
     RequestMap(<<"x">> :> "!"),
     RequestMap(<<" ">> :> "YQ=="),
     RequestMap((<<"x">> :> "!") @@ (<<" ">> :> "YQ==")),
     RequestMap((<<"x">> :> "!") @@ (<<"y">> :> "YQ==")),
     RequestMap(DockerConfigJsonKey :> "YQ==")}

StringDataMaps ==
    {NilMap,
     RequestMap(<<"x">> :> <<"b">>),
     RequestMap(DockerConfigJsonKey :> <<"b">>)}

LabelMaps ==
    {NilMap,
     RequestMap(EmptyKV),
     RequestMap("app" :> "x"),
     RequestMap(managedByLabelKey :> "other"),
     RequestMap(("app" :> "x") @@ (managedByLabelKey :> "other"))}

AnnotationMaps == {NilMap, RequestMap("note" :> "n")}

UpsertPayloads ==
    [bad : {FALSE}, namespace : ValidateNamespaces, name : ValidateNames,
     type : ValidateTypes, data : DataMaps, stringData : StringDataMaps,
     labels : LabelMaps, annotations : AnnotationMaps]

InitValidate ==
    /\ IdleGateway
    /\ pin \in UpsertPayloads
    /\ pout = NoResult

\* handleSecretCreate, line 559: validateAndBuildSecret on the payload; the
\* range over req.Data may meet the entries in any order
ApplyValidateAndBuildSecret ==
    /\ pout = NoResult
    /\ "stringData" \in DOMAIN pin
    /\ \E res \in validateAndBuildSecret(pin) :
          pout' = [tag |-> "validate", err |-> res.err, secret |-> res.secret]
    /\ UNCHANGED <<gatewayVars, pin>>

\* the ownership records as the backend lists them for the caller of the
\* requests below
AliceOwnsNs1 ==
    [err |-> NilErr, items |-> <<[name |-> Ns1, owner |-> OwnerString(Alice)]>>]

\* POST /api/secrets with the payload as its body
CreateRequest(p) ==
    [NoRequest EXCEPT !.route = "secrets", !.method = "POST",
                      !.userHeader = Alice, !.body = p]

\* PUT /api/secrets/s1 with the payload as its body
UpdateRequest(p) ==
    [NoRequest EXCEPT !.route = "secretByName", !.method = "PUT",
                      !.path = [err |-> FALSE, name |-> S1, sub |-> ""],
                      !.userHeader = Alice, !.body = p]

\* the managed secret the update finds
ExistingSecret ==
    [ForeignSecret(Ns1, S1,
                   MakeMap((managedByLabelKey :> managedByLabelValue) @@ ("team" :> "t")), 1)
        EXCEPT !.annotations = MakeMap("kept" :> "k")]

\* handleSecretCreate, lines 543-563: the request up to its Create call
ApplyHandleSecretCreate ==
    /\ pout = NoResult
    /\ "stringData" \in DOMAIN pin
    /\ LET r == CreateRequest(pin)
           h == Scoped(r, "create", userContext(r, AliceOwnsNs1))
       IN  \E next \in createStart(h, pin) :
              pout' = [tag |-> "create", next |-> next]
    /\ UNCHANGED <<gatewayVars, pin>>

\* handleSecretUpdate, lines 654-692: the request up to its Update call, the
\* secret having been read
ApplyHandleSecretUpdate ==
    /\ pout = NoResult
    /\ "stringData" \in DOMAIN pin
    /\ LET r == UpdateRequest(pin)
           h == Scoped(r, "update", userContext(r, AliceOwnsNs1))
           reading == Calling(h, Pending("Get", h.ns, S1, NoSecret, NoSelector))
           after == Issued(reading, "Get", "managed", NilErr)
       IN  \E next \in updateStart(after, ExistingSecret, pin) :
              pout' = [tag |-> "update", next |-> next]
    /\ UNCHANGED <<gatewayVars, pin>>

NextValidate ==
    \/ ApplyValidateAndBuildSecret
    \/ ApplyHandleSecretCreate
    \/ ApplyHandleSecretUpdate

SpecValidate == InitValidate /\ [][NextValidate]_vars

(***************************************************************************)
(* Concurrent updates: two handlers serve PUT /api/secrets/s1 for the      *)
(* owner of n1 against a store that holds the managed secret.              *)
(***************************************************************************)
MaxUpdateRV == 3

UpdateHandlers == {1, 2}

\* PUT /api/secrets/s as a, without namespace hint, the body naming neither
\* namespace nor secret
ConcurrentUpdates ==
    {r \in ByNameRequests :
        /\ r.method = "PUT" /\ r.path.sub = "" /\ ~r.path.err
        /\ r.userHeader = <<" ", "a">>
        /\ r.qNamespace = <<>> /\ r.hNamespace = <<>>
        /\ ~r.body.bad /\ r.body.namespace = <<>> /\ r.body.name = <<>>}

InitUpdates ==
    /\ profiles = [ns \in StoreNamespaces |->
                     IF ns = Ns1 THEN OwnerString(Alice)
                     ELSE OwnerString(<<"x", ":", "B">>)]
    /\ secrets = [k \in StoreKeys |->
                    IF k = <<Ns1, S1>>
                    THEN ForeignSecret(Ns1, S1,
                            MakeMap(managedByLabelKey :> managedByLabelValue), 1)
                    ELSE NoSecret]
    /\ rv = 1
    /\ reqs = [i \in UpdateHandlers |-> Idle]
    /\ pin = <<>>
    /\ pout = NoResult

NextUpdates ==
    \/ \E i \in DOMAIN reqs : ServeSecretByNameOf(i, ConcurrentUpdates)
    \/ \E i \in DOMAIN reqs : BackendGet(i)
    \/ \E i \in DOMAIN reqs : BackendUpdateUpTo(i, MaxUpdateRV)
    \/ \E i \in DOMAIN reqs : Return(i)

SpecUpdates == InitUpdates /\ [][NextUpdates]_vars

(***************************************************************************)
(* Round trip: two handlers serve a create of secret s and a get of it for *)
(* the owner of n1 against an empty store.                                 *)
(***************************************************************************)
RoundTripHandlers == {1, 2}

\* payloads of text values, some with a binary value beside them
RoundTripPayloads ==
    [bad : {FALSE}, namespace : {<<>>}, name : {S1}, type : {""},
     data : {NilMap, RequestMap(<<"y">> :> "/w=="), RequestMap(<<"y">> :> "YR==")},
     stringData : {NilMap,
                   RequestMap(<<"x">> :> <<"b">>),
                   RequestMap(<<"x">> :> <<>>),
                   RequestMap((<<"x">> :> <<"a">>) @@ (<<"g">> :> <<"b">>))},
     labels : {NilMap}, annotations : {NilMap}]

\* POST /api/secrets as a
RoundTripCreates ==
    {[NoRequest EXCEPT !.route = "secrets", !.method = "POST",
                       !.userHeader = Alice, !.body = p] : p \in RoundTripPayloads}

\* GET /api/secrets/s as a
RoundTripGets ==
    {[NoRequest EXCEPT !.route = "secretByName", !.method = "GET",
                       !.path = [err |-> FALSE, name |-> S1, sub |-> ""],
                       !.userHeader = Alice]}

InitRoundTrip ==
    /\ profiles = [ns \in StoreNamespaces |->
                     IF ns = Ns1 THEN OwnerString(Alice)
                     ELSE OwnerString(<<"x", ":", "B">>)]
    /\ secrets = [k \in StoreKeys |-> NoSecret]
    /\ rv = 0
    /\ reqs = [i \in RoundTripHandlers |-> Idle]
    /\ pin = <<>>
    /\ pout = NoResult

NextRoundTrip ==
    \/ \E i \in DOMAIN reqs : ServeSecretsOf(i, RoundTripCreates)
    \/ \E i \in DOMAIN reqs : ServeSecretByNameOf(i, RoundTripGets)
    \/ \E i \in DOMAIN reqs : BackendCreate(i)
    \/ \E i \in DOMAIN reqs : BackendGet(i)

SpecRoundTrip == InitRoundTrip /\ [][NextRoundTrip]_vars

(***************************************************************************)
(* Ownership over time: one handler serves the requests of a, one after    *)
(* the other, while the ownership record of n1 is removed and restored.    *)
(***************************************************************************)
\* requests with the user header of a and no namespace named
FromOwner(requests) ==
    {r \in requests :
        /\ r.userHeader = <<" ", "a">>
        /\ r.qNamespace = <<>> /\ r.qNs = <<>>
        /\ r.hXNamespace = <<>> /\ r.hNamespace = <<>>}

\* the profile controller removes the ownership record of n1, or restores it
ExternalProfileRemoval ==
    /\ profiles' = [profiles EXCEPT ![Ns1] =
                        IF profiles[Ns1] = NoRecord THEN OwnerString(Alice) ELSE NoRecord]
    /\ UNCHANGED <<secrets, rv, reqs, pin, pout>>

NextOwnership ==
    \/ \E i \in DOMAIN reqs : ServeNamespaces(i)
    \/ \E i \in DOMAIN reqs : ServeSecretsOf(i, FromOwner(SecretsRequests))
    \/ \E i \in DOMAIN reqs : ServeSecretByNameOf(i, FromOwner(ByNameRequests))
    \/ \E i \in DOMAIN reqs : BackendList(i)
    \/ \E i \in DOMAIN reqs : BackendCreate(i)
    \/ \E i \in DOMAIN reqs : BackendGet(i)
    \/ \E i \in DOMAIN reqs : BackendListEvents(i)
    \/ \E i \in DOMAIN reqs : BackendUpdate(i)
    \/ \E i \in DOMAIN reqs : BackendDelete(i)
    \/ \E i \in DOMAIN reqs : Return(i)
    \/ ExternalProfileRemoval

SpecOwnership == Init /\ [][NextOwnership]_vars

(***************************************************************************)
(* Error mapping under test                                                *)
(***************************************************************************)
\* the errors the handlers hand to the mapping: nil, the two sentinels, the
\* failures of the backend by reason, and errors of other origin
MappedErrors ==
    {NilErr, Err("notManaged"), Err("profileNotFound"), Err("forbidden"),
     Err("alreadyExists"), Err("notFound"), Err("unauthorized"), Err("conflict"),
     Err("nestedString"), Err("other")}

Fallbacks ==
    {"failed to create secret", "failed to delete secret", "failed to get secret events",
     "failed to get secret yaml", "failed to get secret", "failed to list events",
     "failed to list secrets", "failed to resolve user namespace",
     "failed to update secret"}

InitMapError ==
    /\ IdleGateway
    /\ pin \in [err : MappedErrors, fallback : Fallbacks]
    /\ pout = NoResult

ApplyMapKubeError ==
    /\ pout = NoResult
    /\ "fallback" \in DOMAIN pin
    /\ pout' = [tag |-> "mapKube", reply |-> mapKubeError(pin.err, pin.fallback)]
    /\ UNCHANGED <<gatewayVars, pin>>

ApplyMapNamespaceResolutionError ==
    /\ pout = NoResult
    /\ "fallback" \in DOMAIN pin
    /\ pout' = [tag |-> "mapResolution", reply |-> mapNamespaceResolutionError(pin.err)]
    /\ UNCHANGED <<gatewayVars, pin>>

NextMapError ==
    \/ ApplyMapKubeError
    \/ ApplyMapNamespaceResolutionError

SpecMapError == InitMapError /\ [][NextMapError]_vars

(***************************************************************************)
(* Frontend component                                                      *)
(*                                                                         *)
(* pin holds the fields of AppComponent and of NamespaceSyncService, pout  *)
(* the page address, the calls to the API that have not answered yet, each *)
(* with the continuation that awaits it, and two records of the past: the  *)
(* namespaces the API has returned, and the namespace of the list call, if *)
(* any, whose answer was last put on display.  The page stays on the list *)
(* view and its filters stay empty: the events drawn are the start of the  *)
(* page, refresh, and the namespace selections of the dashboard.           *)
(***************************************************************************)
MaxRefreshes == 2

Locations == {<<>>, Ns1, Ns2}

StringValue(s) == [type |-> "string", value |-> s]

NotAString == [type |-> "object", value |-> <<>>]

SelectedValues == {StringValue(s) : s \in {Ns1, Ns2, Ns3, <<" ">>}} \cup {NotAString}

AllNamespacesValues == {<<>>, <<Ns2>>, <<<<>>, Ns1>>}

NamespacesFailed == [ok |-> FALSE, namespaces |-> <<>>]

NamespaceAnswers ==
    {NamespacesFailed}
        \cup {[ok |-> TRUE, namespaces |-> l] : l \in {<<>>, <<Ns1>>, <<Ns2>>, <<Ns1, Ns2>>}}

ListAnswers(namespace) ==
    {[ok |-> FALSE, items |-> <<>>], [ok |-> TRUE, items |-> <<>>],
     [ok |-> TRUE, items |-> <<[name |-> S1, namespace |-> namespace]>>]}

NotAwaiting == [pc |-> "idle", namespace |-> <<>>]

RangeOf(seq) == {seq[k] : k \in 1..Len(seq)}

RemoveAt(seq, k) == [j \in 1..(Len(seq) - 1) |-> IF j < k THEN seq[j] ELSE seq[j + 1]]

InitFrontend ==
    /\ IdleGateway
    /\ pin = [namespace |-> <<>>, secrets |-> <<>>, loading |-> FALSE,
              view |-> "list", filters |-> <<>>, statusMessage |-> "", statusError |-> FALSE,
              availableNamespaces |-> <<>>, namespaceSwitchInProgress |-> FALSE,
              lastObservedNamespace |-> <<>>, onNamespaceChange |-> FALSE]
    /\ pout \in [url : Locations, bootstrap : {NotAwaiting}, external : {NotAwaiting},
                 refreshes : {<<>>}, returned : {{}}, listedFor : {{}}]

currentNamespaceFromURL == TrimSpace(pout.url)

setStatus(c, message, isError) == [c EXCEPT !.statusMessage = message, !.statusError = isError]

\* loadSecrets up to its await; the caller has tested that a namespace is selected
loadSecrets(c) == [setStatus(c, "Loading managed secrets", FALSE) EXCEPT !.loading = TRUE]

\* loadSecrets from the answer of the list call on
loadSecretsAnswered(c, answer) ==
    IF answer.ok
    THEN [setStatus([c EXCEPT !.secrets = answer.items], "Loaded managed secrets", FALSE)
            EXCEPT !.loading = FALSE]
    ELSE [setStatus([c EXCEPT !.secrets = <<>>], "Failed to load secrets", TRUE)
            EXCEPT !.loading = FALSE]

\* loadNamespace from the answer of the namespaces call on, for a non-empty answer
loadNamespace(c, namespaces) ==
    LET requested == currentNamespaceFromURL
        namespace == IF requested # <<>> /\ Contains(namespaces, requested)
                     THEN requested
                     ELSE namespaces[1]
    IN  [c EXCEPT !.availableNamespaces = namespaces,
                  !.namespace = namespace,
                  !.lastObservedNamespace = TrimSpace(namespace)]

\* the selection of a namespace the caller may use, up to the await of loadSecrets
selectNamespace(c, targetNamespace) ==
    loadSecrets([c EXCEPT !.namespace = targetNamespace,
                          !.lastObservedNamespace = TrimSpace(targetNamespace),
                          !.filters = <<>>])

ngOnInit ==
    /\ ~pin.onNamespaceChange
    /\ pout.bootstrap.pc = "idle"
    /\ pin' = setStatus([pin EXCEPT !.onNamespaceChange = TRUE,
                                    !.lastObservedNamespace = currentNamespaceFromURL,
                                    !.view = "list"],
                        "Resolving profile namespace", FALSE)
    /\ pout' = [pout EXCEPT !.bootstrap = [pc |-> "getNamespaces", namespace |-> <<>>]]
    /\ UNCHANGED gatewayVars

\* bootstrap from the answer of its namespaces call up to the await of loadSecrets
bootstrapNamespaces ==
    /\ pout.bootstrap.pc = "getNamespaces"
    /\ \E answer \in NamespaceAnswers :
        IF ~answer.ok
        THEN /\ pin' = setStatus(pin, "request failed", TRUE)
             /\ pout' = [pout EXCEPT !.bootstrap = [pc |-> "done", namespace |-> <<>>]]
        ELSE IF answer.namespaces = <<>>
        THEN /\ pin' = setStatus(pin, "No namespace resolved for current user.", TRUE)
             /\ pout' = [pout EXCEPT !.bootstrap = [pc |-> "done", namespace |-> <<>>]]
        ELSE LET c == loadNamespace(pin, answer.namespaces)
             IN  /\ pin' = loadSecrets(c)
                 /\ pout' = [pout EXCEPT
                        !.bootstrap = [pc |-> "listSecrets", namespace |-> c.namespace],
                        !.returned = @ \cup RangeOf(answer.namespaces)]
    /\ UNCHANGED gatewayVars

\* bootstrap from the answer of its list call on
bootstrapSecrets ==
    /\ pout.bootstrap.pc = "listSecrets"
    /\ \E answer \in ListAnswers(pout.bootstrap.namespace) :
        pin' = loadSecretsAnswered(pin, answer)
    /\ pout' = [pout EXCEPT !.bootstrap = [pc |-> "done", namespace |-> <<>>],
                            !.listedFor = {pout.bootstrap.namespace}]
    /\ UNCHANGED gatewayVars

\* refresh up to the await of loadSecrets
refresh ==
    /\ pin.onNamespaceChange
    /\ Len(pout.refreshes) < MaxRefreshes
    /\ IF pin.namespace = <<>>
       THEN UNCHANGED <<pin, pout>>
       ELSE /\ pin' = loadSecrets(pin)
            /\ pout' = [pout EXCEPT !.refreshes = Append(@, pin.namespace)]
    /\ UNCHANGED gatewayVars

\* refresh from the answer of its list call on; the view is the list
refreshSecrets ==
    /\ \E k \in DOMAIN pout.refreshes :
        /\ \E answer \in ListAnswers(pout.refreshes[k]) :
            pin' = loadSecretsAnswered(pin, answer)
        /\ pout' = [pout EXCEPT !.refreshes = RemoveAt(@, k),
                                !.listedFor = {pout.refreshes[k]}]
    /\ UNCHANGED gatewayVars

\* applyExternalNamespaceSelection up to its first await, or to its end
\* when it awaits nothing, applied to the component c
applyExternalNamespaceSelection(c, namespace) ==
    LET targetNamespace == TrimSpace(namespace)
    IN  IF \/ targetNamespace = <<>>
           \/ targetNamespace = c.namespace
           \/ c.namespaceSwitchInProgress
        THEN /\ pin' = c
             /\ pout' = pout
        ELSE IF c.availableNamespaces = <<>>
        THEN /\ pin' = [c EXCEPT !.namespaceSwitchInProgress = TRUE]
             /\ pout' = [pout EXCEPT
                    !.external = [pc |-> "getNamespaces", namespace |-> targetNamespace]]
        ELSE IF ~Contains(c.availableNamespaces, targetNamespace)
        THEN /\ pin' = setStatus(c, "Namespace is not available for current user.", TRUE)
             /\ pout' = pout
        ELSE /\ pin' = [selectNamespace(c, targetNamespace)
                            EXCEPT !.namespaceSwitchInProgress = TRUE]
             /\ pout' = [pout EXCEPT
                    !.external = [pc |-> "listSecrets", namespace |-> targetNamespace]]

\* NamespaceSyncService.emitNamespaceChange, with the handler it calls
emitNamespaceChange(namespace) ==
    LET trimmedNamespace == TrimSpace(namespace)
    IN  IF trimmedNamespace = <<>>
        THEN UNCHANGED <<pin, pout>>
        ELSE applyExternalNamespaceSelection(
                 [pin EXCEPT !.lastObservedNamespace = trimmedNamespace], trimmedNamespace)

\* messageHandler on a namespace-selected message
messageNamespaceSelected ==
    /\ pin.onNamespaceChange
    /\ \E value \in SelectedValues :
        IF value.type # "string"
        THEN UNCHANGED <<pin, pout>>
        ELSE emitNamespaceChange(value.value)
    /\ UNCHANGED gatewayVars

\* messageHandler on an all-namespaces message
messageAllNamespaces ==
    /\ pin.onNamespaceChange
    /\ \E value \in AllNamespacesValues :
        IF value = <<>>
        THEN UNCHANGED <<pin, pout>>
        ELSE LET preferred == currentNamespaceFromURL
                 candidate == IF TrimSpace(preferred) # <<>>
                              THEN preferred
                              ELSE TrimSpace(value[1])
             IN  IF candidate # <<>>
                 THEN emitNamespaceChange(candidate)
                 ELSE UNCHANGED <<pin, pout>>
    /\ UNCHANGED gatewayVars

\* one tick of the poller that start sets up
namespacePoller ==
    /\ pin.onNamespaceChange
    /\ LET observedNamespace == currentNamespaceFromURL
       IN  IF observedNamespace = <<>> \/ observedNamespace = pin.lastObservedNamespace
           THEN UNCHANGED <<pin, pout>>
           ELSE emitNamespaceChange(observedNamespace)
    /\ UNCHANGED gatewayVars

\* applyExternalNamespaceSelection from the answer of its namespaces call
\* up to the await of loadSecrets, or to its end
externalNamespaces ==
    /\ pout.external.pc = "getNamespaces"
    /\ \E answer \in NamespaceAnswers :
        LET targetNamespace == pout.external.namespace
        IN  IF ~answer.ok
            THEN /\ pin' = [setStatus(pin, "Failed to switch namespace", TRUE)
                                EXCEPT !.namespaceSwitchInProgress = FALSE]
                 /\ pout' = [pout EXCEPT !.external = NotAwaiting]
            ELSE IF ~Contains(answer.namespaces, targetNamespace)
            THEN /\ pin' = [setStatus(pin, "Namespace is not available for current user.", TRUE)
                                EXCEPT !.availableNamespaces = answer.namespaces,
                                       !.namespaceSwitchInProgress = FALSE]
                 /\ pout' = [pout EXCEPT !.external = NotAwaiting,
                                         !.returned = @ \cup RangeOf(answer.namespaces)]
            ELSE /\ pin' = selectNamespace(
                              [pin EXCEPT !.availableNamespaces = answer.namespaces],
                              targetNamespace)
                 /\ pout' = [pout EXCEPT
                        !.external = [pc |-> "listSecrets", namespace |-> targetNamespace],
                        !.returned = @ \cup RangeOf(answer.namespaces)]
    /\ UNCHANGED gatewayVars

\* applyExternalNamespaceSelection from the answer of its list call on
externalSecrets ==
    /\ pout.external.pc = "listSecrets"
    /\ \E answer \in ListAnswers(pout.external.namespace) :
        pin' = [loadSecretsAnswered(pin, answer) EXCEPT !.namespaceSwitchInProgress = FALSE]
    /\ pout' = [pout EXCEPT !.external = NotAwaiting,
                            !.listedFor = {pout.external.namespace}]
    /\ UNCHANGED gatewayVars

NextFrontend ==
    \/ ngOnInit
    \/ bootstrapNamespaces
    \/ bootstrapSecrets
    \/ refresh
    \/ refreshSecrets
    \/ messageNamespaceSelected
    \/ messageAllNamespaces
    \/ namespacePoller
    \/ externalNamespaces
    \/ externalSecrets

SpecFrontend == InitFrontend /\ [][NextFrontend]_vars

(***************************************************************************)
(* Claims about the Identity Matcher                                       *)
(***************************************************************************)
MatchApplied == pout.tag = "match"

SameBase == normalizeIdentity(pin.b1) = normalizeIdentity(pin.b2)

EndsInSeparator(s) == s # <<>> /\ Contains(Separators, s[Len(s)])

BeginsWithQuote(s) == s # <<>> /\ Head(s) = Quote

\* C10, as stated: identities whose base values normalize to the same string
\* are judged equal, whatever prefix and separator either side carries.
C10_AsStated == (MatchApplied /\ SameBase) => pout.v

\* C10, amended: identities whose base values normalize to the same string are
\* judged equal whatever prefix and separator either side carries, provided
\* that string is not empty and does not end in a separator, and neither base
\* value begins with a double quote.
C10_SameBaseMatches ==
    (/\ MatchApplied
     /\ SameBase
     /\ normalizeIdentity(pin.b1) # <<>>
     /\ ~EndsInSeparator(normalizeIdentity(pin.b1))
     /\ ~BeginsWithQuote(pin.b1)
     /\ ~BeginsWithQuote(pin.b2))
    => pout.v

\* a prefixed identity with '#', against one prefixed with ':', base values
\* differing in case and surrounding blanks
C10_Witness ==
    /\ MatchApplied
    /\ pin.p1 = <<"x", "#">>
    /\ pin.p2 = <<"x", ":">>
    /\ pin.b1 = <<"A">>
    /\ pin.b2 = <<" ", "a">>
    /\ SameBase
    /\ pout.v

(***************************************************************************)
(* Claims about the Namespace Resolver                                     *)
(***************************************************************************)
ResolveApplied == pout.tag = "resolve"

OwnerMatches(record, user) ==
    /\ record.owner.kind = "string"
    /\ identitiesMatch(identityCandidates(user), identityCandidates(record.owner.v))

\* the non-blank names of the records whose owner matches the caller
OwnedNames(items, user) ==
    {TrimSpace(items[i].name) :
        i \in {j \in 1..Len(items) :
                 TrimSpace(items[j].name) # <<>> /\ OwnerMatches(items[j], user)}}

Ascending(seq) == \A i \in 1..(Len(seq) - 1) : StrLess(seq[i], seq[i + 1])

Elements(seq) == {seq[i] : i \in 1..Len(seq)}

ResolvesExactly ==
    LET owned == OwnedNames(pin.listed.items, pin.user)
    IN  /\ (pout.err.kind = "profileNotFound") <=> (owned = {})
        /\ pout.err.kind = "profileNotFound" => pout.reply.status = StatusForbidden
        /\ owned # {} =>
              /\ pout.err = NilErr
              /\ Elements(pout.namespaces) = owned
              /\ Len(pout.namespaces) = Cardinality(owned)
              /\ Ascending(pout.namespaces)

WellTypedOwners(items) ==
    \A i \in 1..Len(items) : items[i].owner.kind # "nonstring"

\* C8, as stated: for every state of the ownership records the resolver returns
\* exactly the non-blank record names whose owner matches, ascending, and fails
\* with the no-owned-namespace error (403) iff no record matches.
C8_AsStated ==
    (ResolveApplied /\ pin.listed.err = NilErr) => ResolvesExactly

\* C8, amended: the same, for every state of the ownership records in which no
\* record carries a spec.owner.name of a non-string type.
C8_ResolvesOwnedSorted ==
    (ResolveApplied /\ pin.listed.err = NilErr /\ WellTypedOwners(pin.listed.items))
    => ResolvesExactly

\* the caller owns two records listed in descending order, next to a record
\* of another owner
C8_Witness ==
    /\ ResolveApplied
    /\ pin.user = Alice
    /\ Len(pin.listed.items) = 3
    /\ pin.listed.items[1] = [name |-> Ns2, owner |-> OwnerString(<<"x", ":", "A">>)]
    /\ pin.listed.items[2] = [name |-> Ns3, owner |-> OwnerString(Bob)]
    /\ pin.listed.items[3] = [name |-> Ns1, owner |-> OwnerString(Alice)]
    /\ pout.namespaces = <<Ns1, Ns2>>

\* exactly one matching record: a single-element list
C8_WitnessSingle ==
    /\ ResolveApplied
    /\ Cardinality(OwnedNames(pin.listed.items, pin.user)) = 1
    /\ Len(pout.namespaces) = 1

(***************************************************************************)
(* Claims about the gateway                                                *)
(***************************************************************************)
SecretCalls == {"List", "Create", "Get", "ListEvents", "Update", "Delete"}

Calls(h) == {h.issued[k] : k \in 1..Len(h.issued)}

SecretCallsOf(h) == {c \in Calls(h) : c.kind \in SecretCalls}

\* the request is one to /api/secrets or /api/secrets/{name}[/events|/yaml]
OnSecrets(h) == h.r.route \in {"secrets", "secretByName"}

\* the gateway's read of the secret the request names found it managed
ReadManaged(h) ==
    \E c \in Calls(h) : c.kind = "Get" /\ c.err = NilErr /\ c.hit = "managed"

\* C1: every Secret or Event call the gateway issues for a request to
\* /api/secrets or /api/secrets/{name}[/events|/yaml] targets a namespace of
\* the set resolved for the request's caller, whatever the query parameters,
\* the headers and the payload say; the object of a Create or Update lies in
\* the namespace the call targets.
C1_CallsStayInResolvedSet ==
    \A i \in DOMAIN reqs :
        LET h == reqs[i]
        IN  /\ \A c \in SecretCallsOf(h) : OnSecrets(h) /\ Contains(h.allowed, c.namespace)
            /\ h.pend.kind # "none" =>
                  /\ Contains(h.allowed, h.pend.namespace)
                  /\ ~h.pend.obj.absent => h.pend.obj.namespace = h.pend.namespace

\* the caller owns two namespaces and the second one, named in a header, is
\* where the secret was created
C1_Witness ==
    \E i \in DOMAIN reqs :
        /\ reqs[i].allowed = <<Ns1, Ns2>>
        /\ reqs[i].r.hXNamespace = Ns2
        /\ reqs[i].r.hNamespace = Ns1
        /\ \E c \in Calls(reqs[i]) :
              c.kind = "Create" /\ c.namespace = Ns2 /\ c.err = NilErr

\* POST /api/secrets or PUT /api/secrets/{name}
UpsertRequest(h) ==
    \/ h.r.route = "secrets" /\ h.r.method = "POST"
    \/ h.r.route = "secretByName" /\ h.r.method = "PUT" /\ ~h.r.path.err /\ h.r.path.sub = ""

\* the payload names a namespace other than the one in use for the request
PayloadElsewhere(h) ==
    /\ UpsertRequest(h)
    /\ h.ns # <<>>
    /\ ~h.r.body.bad
    /\ TrimSpace(h.r.body.namespace) # <<>>
    /\ TrimSpace(h.r.body.namespace) # h.ns

NoWrite(h) ==
    /\ \A c \in Calls(h) : c.kind \notin {"Create", "Update"}
    /\ h.pend.kind \notin {"Create", "Update"}

CrossNamespace ==
    [status |-> 403, error |-> "cross-namespace access is not allowed", body |-> NoBody]

C3_AsStated ==
    \A i \in DOMAIN reqs :
        LET h == reqs[i]
        IN  (/\ h.pc = "done"
             /\ h.r.route = "secrets"
             /\ h.r.method = "GET"
             /\ h.allowed # <<>>
             /\ TrimSpace(h.r.qNamespace) # <<>>
             /\ ~Contains(h.allowed, TrimSpace(h.r.qNamespace)))
            => h.resp = CrossNamespace

\* C4: every Secret and Event call of a request is issued as the request's
\* own identity, the trimmed user header and the normalized groups; the
\* gateway's own connection serves the list of ownership records only.
C4_CallsImpersonateCaller ==
    \A i \in DOMAIN reqs :
        LET h == reqs[i]
            caller == [kind |-> "impersonated", user |-> TrimSpace(h.r.userHeader),
                       groups |-> normalizeGroups(h.r.groupsHeader)]
        IN  /\ \A c \in Calls(h) :
                  /\ c.kind \in SecretCalls => c.as = caller /\ c.as.user # <<>>
                  /\ c.kind = "ListProfiles" <=> c.as = AdminClient
            /\ h.pend.kind # "none" => h.client = caller

\* a secret read as the caller a, member of the groups g and h
C4_Witness ==
    \E i \in DOMAIN reqs :
        \E c \in Calls(reqs[i]) :
            /\ c.kind = "Get"
            /\ reqs[i].r.userHeader = <<" ", "a">>
            /\ c.as.user = <<"a">>
            /\ c.as.groups = << <<"g">>, <<"h">> >>

\* C5, as stated: under every interleaving with other actors, the gateway
\* never deletes or overwrites an object that lacks the management label at
\* the moment the backend applies the mutation.
C5_AsStated ==
    \A i \in DOMAIN reqs :
        \A c \in Calls(reqs[i]) :
            (c.kind \in {"Update", "Delete"} /\ c.err = NilErr) => c.hit = "managed"

\* C6: while nobody else changes the backend during a request, a secret
\* without the management label is not returned by list, get, events or yaml
\* and not changed by update or delete.
C6_UnmanagedUntouched ==
    \A i \in DOMAIN reqs :
        LET h == reqs[i]
        IN  ~h.disturbed =>
                /\ \A c \in Calls(h) :
                      /\ c.kind = "List" => c.hit # "unmanaged"
                      /\ c.kind \in {"ListEvents", "Update", "Delete"} => ReadManaged(h)
                      /\ (c.kind \in {"Update", "Delete"} /\ c.err = NilErr) =>
                            c.hit = "managed"
                /\ h.pend.kind \in {"ListEvents", "Update", "Delete"} => ReadManaged(h)
                /\ (/\ h.pc = "done"
                    /\ h.op \in {"get", "yaml", "events", "update", "delete"}
                    /\ h.resp.status = 200) => ReadManaged(h)

\* a delete of a secret that carries another managed-by value: refused, the
\* secret still there
C6_Witness ==
    \E i \in DOMAIN reqs :
        /\ reqs[i].pc = "done"
        /\ reqs[i].op = "delete"
        /\ ~reqs[i].disturbed
        /\ \E c \in Calls(reqs[i]) : c.kind = "Get" /\ c.err = NilErr /\ c.hit = "unmanaged"
        /\ reqs[i].resp.status = 404
        /\ ~secrets[<<Ns1, S1>>].absent
        /\ ~secrets[<<Ns1, S1>>].labels.nil

NotFound == [status |-> 404, error |-> "not found", body |-> NoBody]

\* C7: for get, update, delete, events and yaml, a secret that the gateway's
\* read finds without the management label is answered exactly as one that
\* does not exist: 404 with the error "not found".
C7_UnmanagedLooksAbsent ==
    \A i \in DOMAIN reqs :
        LET h == reqs[i]
        IN  (/\ h.pc = "done"
             /\ h.op \in {"get", "update", "delete", "events", "yaml"}
             /\ \E c \in Calls(h) :
                    /\ c.kind = "Get"
                    /\ c.hit \in {"absent", "unmanaged"}
                    /\ c.err \in {NilErr, Err("notFound")})
            => h.resp = NotFound

\* an update of a secret that exists without the label
C7_Witness ==
    \E i \in DOMAIN reqs :
        /\ reqs[i].pc = "done"
        /\ reqs[i].op = "update"
        /\ \E c \in Calls(reqs[i]) : c.kind = "Get" /\ c.hit = "unmanaged" /\ c.err = NilErr
        /\ reqs[i].resp = NotFound

\* the list of ownership records failed
ListFailed(h) == \E c \in Calls(h) : c.kind = "ListProfiles" /\ c.err # NilErr

\* the list of ownership records went through and the caller owns nothing
OwnsNothing(h) ==
    /\ \E c \in Calls(h) : c.kind = "ListProfiles" /\ c.err = NilErr
    /\ h.allowed = <<>>

\* C9, fail closed: with an empty resolved set or a failed list, no Secret or
\* Event call is issued for the request.
FailsClosed ==
    \A i \in DOMAIN reqs :
        (ListFailed(reqs[i]) \/ OwnsNothing(reqs[i])) =>
            /\ SecretCallsOf(reqs[i]) = {}
            /\ reqs[i].pend.kind = "none"

\* C9, as stated: the request fails closed, and a failure of the list itself
\* is answered 500 and never as the no-owned-namespace outcome.
C9_AsStated ==
    /\ FailsClosed
    /\ \A i \in DOMAIN reqs :
          (reqs[i].pc = "done" /\ ListFailed(reqs[i])) =>
              /\ reqs[i].resp.status = 500
              /\ reqs[i].resp.error # "no kubeflow profile found for user"

(***************************************************************************)
(* Claims about identity normalization                                     *)
(***************************************************************************)
NormalizeApplied == pout.tag = "normalize"

\* C11, as stated: two identity strings that differ only in surrounding
\* whitespace, surrounding quotes (whitespace inside or outside the quotes)
\* and letter case normalize to the same value, and normalizing a normalized
\* value returns it unchanged.
C11_AsStated ==
    NormalizeApplied => (pout.n1 = pout.n2 /\ pout.again = pout.n1)

\* what holds of the code: the same when no quoted value has blanks outside
\* its quotes
NoBlankOutsideQuotes(d) ==
    d.quoted => (d.outerLeft = <<>> /\ d.outerRight = <<>>)

C11_QuotesOutermost ==
    (NormalizeApplied /\ NoBlankOutsideQuotes(pin.d1) /\ NoBlankOutsideQuotes(pin.d2))
    => (pout.n1 = pout.n2 /\ pout.again = pout.n1 /\ pout.n1 = ToLower(pin.c1))

(***************************************************************************)
(* Claims about the Identity Extractor                                     *)
(***************************************************************************)
\* the user header of the request is absent or blank
NoUser(h) == h.r.route # "none" /\ TrimSpace(h.r.userHeader) = <<>>

NoBackendCall(h) == h.issued = <<>> /\ h.pend.kind = "none"

Unauthenticated ==
    [status |-> 401, error |-> "missing kubeflow-userid header", body |-> NoBody]

\* C12, as stated: a request whose user header is absent or blank is answered
\* 401 with an error naming the header, on /api/namespaces and on every
\* /api/secrets route, and no backend call is issued for it.
C12_AsStated ==
    \A i \in DOMAIN reqs :
        NoUser(reqs[i]) =>
            /\ NoBackendCall(reqs[i])
            /\ reqs[i].pc = "done" => reqs[i].resp = Unauthenticated

\* C12, amended: the same for every /api/secrets route and for GET
\* /api/namespaces; /api/namespaces answers another method 405 before it looks
\* at the header, again without a backend call.
C12_BlankUserRejected ==
    \A i \in DOMAIN reqs :
        LET h == reqs[i]
        IN  NoUser(h) =>
                /\ NoBackendCall(h)
                /\ h.pc \in {"idle", "done"}
                /\ h.pc = "done" =>
                      IF h.r.route = "namespaces" /\ h.r.method # "GET"
                      THEN h.resp.status = 405 /\ h.resp.body = NoBody
                      ELSE h.resp = Unauthenticated

\* a delete without a user header value, answered 401
C12_Witness ==
    \E i \in DOMAIN reqs :
        /\ reqs[i].pc = "done"
        /\ reqs[i].r.route = "secretByName"
        /\ reqs[i].r.method = "DELETE"
        /\ reqs[i].r.userHeader = <<" ">>
        /\ reqs[i].resp = Unauthenticated
        /\ reqs[i].issued = <<>>

(***************************************************************************)
(* Claims about the group normalization                                    *)
(***************************************************************************)
GroupsApplied == pout.tag = "groups"

\* the comma-separated parts of a header value: its maximal comma-free pieces
PartsOf(v) ==
    {SubSeq(v, x[1], x[2]) : x \in
        {x \in (1..(Len(v) + 1)) \X (0..Len(v)) :
            /\ x[2] >= x[1] - 1
            /\ \A k \in x[1]..x[2] : v[k] # ","
            /\ (x[1] = 1 \/ v[x[1] - 1] = ",")
            /\ (x[2] = Len(v) \/ v[x[2] + 1] = ",")}}

\* the non-blank trimmed parts of all values
ExpectedGroups(values) ==
    {TrimSpace(p) : p \in UNION {PartsOf(values[i]) : i \in 1..Len(values)}} \ {<<>>}

\* C13: normalizeGroups returns exactly the non-blank, trimmed comma-separated
\* parts of all header values, each once, ascending; the order and the
\* multiplicity of the occurrences do not matter, and applied to its own
\* result it returns the same list.
C13_GroupsAreTheSortedSet ==
    GroupsApplied =>
        /\ Elements(pout.out) = ExpectedGroups(pin.values)
        /\ Len(pout.out) = Cardinality(ExpectedGroups(pin.values))
        /\ Ascending(pout.out)
        /\ pout.reversed = pout.out
        /\ pout.doubled = pout.out
        /\ pout.again = pout.out

\* two occurrences, the group g named in both and h before it
C13_Witness ==
    /\ GroupsApplied
    /\ pin.values = << <<"h", ",", "g">>, <<" ", "g", ",">> >>
    /\ pout.out = << <<"g">>, <<"h">> >>

(***************************************************************************)
(* Claims about the Secret Validator/Builder                               *)
(***************************************************************************)
ValidateApplied == pout.tag = "validate"

\* the type the payload resolves to
ResolvedType(req) == IF req.type = "" THEN "Opaque" ELSE req.type

BlockedSet == {"kubernetes.io/service-account-token", "bootstrap.kubernetes.io/token"}

AllowSet == {"Opaque", "kubernetes.io/dockerconfigjson"}

\* the payload passes the rules that come before the type rules
PassesNaming(req) ==
    /\ TrimSpace(req.namespace) # <<>>
    /\ TrimSpace(req.name) # <<>>
    /\ IsDNS1123Subdomain(TrimSpace(req.name))

TypePolicy ==
    LET t == ResolvedType(pin)
    IN  /\ t \in BlockedSet =>
              pout.err = ValidationErr(<<"secret type is not allowed", t>>)
        /\ t \notin BlockedSet \cup AllowSet =>
              pout.err = ValidationErr(<<"secret type is not in allowed list", t>>)
        /\ t \in AllowSet \ BlockedSet =>
              \/ pout.err = NilErr /\ pout.secret.type = t
              \/ /\ pout.err # NilErr
                 /\ pout.err.msg[1] \notin {"secret type is not allowed",
                                            "secret type is not in allowed list"}

\* C14, as stated: every upsert payload whose resolved type is in the blocked
\* set fails with the blocked-type error, one whose type is in neither set is
\* rejected as not in the allowed list, and only a type of the allow set that
\* is not blocked passes.
C14_AsStated == ValidateApplied => TypePolicy

\* C14, amended: the same for every payload that passes the namespace and name
\* rules, which come first.
C14_BlockedBeforeAllowed == (ValidateApplied /\ PassesNaming(pin)) => TypePolicy

\* a service-account token payload, refused as blocked
C14_Witness ==
    /\ ValidateApplied
    /\ PassesNaming(pin)
    /\ pin.type = "kubernetes.io/service-account-token"
    /\ pout.err.kind = "validation"
    /\ pout.err.msg = <<"secret type is not allowed", "kubernetes.io/service-account-token">>

\* the rules of the validator, in their order: whether the payload violates
\* the rule, and the errors the rule may then report
Rule(n, req) ==
    LET t == ResolvedType(req)
        blankKeys == {k \in DOMAIN req.data.kv : TrimSpace(k) = <<>>}
        badValues == {k \in DOMAIN req.data.kv :
                        TrimSpace(k) # <<>> /\ DecodeString(req.data.kv[k]).err # NilErr}
    IN  CASE n = 1 ->
               [violated |-> TrimSpace(req.namespace) = <<>> \/ TrimSpace(req.name) = <<>>,
                errors |-> {ValidationErr(<<"namespace is required">>) :
                                x \in {1} \cap {y \in {1} : TrimSpace(req.namespace) = <<>>}}
                           \cup {ValidationErr(<<"name is required">>) :
                                x \in {1} \cap {y \in {1} : TrimSpace(req.name) = <<>>}}]
          [] n = 2 ->
               [violated |-> ~IsDNS1123Subdomain(TrimSpace(req.name)),
                errors |-> {ValidationErr(<<"invalid secret name">>)}]
          [] n = 3 ->
               [violated |-> FALSE, errors |-> {}]
          [] n = 4 ->
               [violated |-> t \in BlockedSet,
                errors |-> {ValidationErr(<<"secret type is not allowed", t>>)}]
          [] n = 5 ->
               [violated |-> t \notin AllowSet,
                errors |-> {ValidationErr(<<"secret type is not in allowed list", t>>)}]
          [] n = 6 ->
               [violated |-> DOMAIN req.data.kv = {} /\ DOMAIN req.stringData.kv = {},
                errors |-> {ValidationErr(<<"either data or stringData must be provided">>)}]
          [] n = 7 ->
               [violated |-> blankKeys \cup badValues # {},
                errors |-> {ValidationErr(<<"data contains an empty key">>) : k \in blankKeys}
                           \cup {ValidationErr(<<"data is not valid base64", k>>) :
                                    k \in badValues}]
          [] n = 8 ->
               [violated |-> /\ t = "kubernetes.io/dockerconfigjson"
                             /\ <<".", "d">> \notin DOMAIN req.data.kv
                             /\ <<".", "d">> \notin DOMAIN req.stringData.kv,
                errors |-> {ValidationErr(<<"dockerconfigjson secret requires key",
                                            <<".", "d">>>>)}]

Violated(req) == {n \in 1..8 : Rule(n, req).violated}

Earliest(req) == CHOOSE n \in Violated(req) : \A m \in Violated(req) : n <= m

\* C15: a payload that violates several of the eight rules is rejected with
\* the message of the earliest rule it violates, and a payload that violates
\* none is accepted.
C15_EarliestRuleReported ==
    ValidateApplied =>
        IF Violated(pin) = {}
        THEN pout.err = NilErr /\ ~pout.secret.absent
        ELSE pout.err \in Rule(Earliest(pin), pin).errors /\ pout.secret.absent

\* a payload without name, of a blocked type and without data is told about
\* the name
C15_Witness ==
    /\ ValidateApplied
    /\ {1, 4, 6} \subseteq Violated(pin)
    /\ TrimSpace(pin.namespace) # <<>>
    /\ pout.err = ValidationErr(<<"name is required">>)

\* a payload of the docker-registry-config type that the first seven rules
\* accept
DockerConfigOtherwiseValid ==
    /\ ResolvedType(pin) = "kubernetes.io/dockerconfigjson"
    /\ Violated(pin) \cap (1..7) = {}

RequiredKeySupplied ==
    \/ <<".", "d">> \in DOMAIN pin.data.kv
    \/ <<".", "d">> \in DOMAIN pin.stringData.kv

\* C16: an otherwise valid payload of type kubernetes.io/dockerconfigjson
\* fails with an error naming the key .dockerconfigjson when the key is in
\* neither data nor stringData, and succeeds when it is in either map.
C16_DockerConfigKeyRequired ==
    (ValidateApplied /\ DockerConfigOtherwiseValid) =>
        IF RequiredKeySupplied
        THEN pout.err = NilErr /\ ~pout.secret.absent
        ELSE /\ pout.err.kind = "validation"
             /\ pout.err.msg[Len(pout.err.msg)] = <<".", "d">>
             /\ pout.secret.absent

\* the key supplied in stringData only, and accepted
C16_Witness ==
    /\ ValidateApplied
    /\ DockerConfigOtherwiseValid
    /\ <<".", "d">> \notin DOMAIN pin.data.kv
    /\ <<".", "d">> \in DOMAIN pin.stringData.kv
    /\ pout.err = NilErr

\* a create or update request has run up to its backend call
UpsertApplied == pout.tag \in {"create", "update"}

\* the payload as the handler hands it to validateAndBuildSecret
Effective ==
    IF pout.tag = "create" THEN [pin EXCEPT !.namespace = <<"n", "1">>]
    ELSE [pin EXCEPT !.namespace = <<"n", "1">>, !.name = <<"s">>]

\* the handler's own checks let the payload through to validation
ReachesValidation ==
    /\ TrimSpace(pin.namespace) \in {<<>>, <<"n", "1">>}
    /\ pout.tag = "update" => TrimSpace(pin.name) \in {<<>>, <<"s">>}

\* the first six rules accept the payload and its data map has a blank key
\* or a value that is not base64
BadDataOnly(req) ==
    /\ Violated(req) \cap (1..6) = {}
    /\ 7 \in Violated(req)

\* an error about a base64 value names a key of the map whose value does not
\* decode
NamesInvalidKey(req, msg) ==
    msg[1] = "data is not valid base64" =>
        /\ msg[2] \in DOMAIN req.data.kv
        /\ DecodeString(req.data.kv[msg[2]]).err # NilErr

\* C17: a payload that passes the earlier rules and has a blank data key or a
\* data value that is not standard base64 is refused, with HTTP 400 by the
\* create and update handlers; an error about a value names a key whose
\* value is invalid; no Create or Update call is issued.
C17_BadDataRejected ==
    /\ (ValidateApplied /\ BadDataOnly(pin)) =>
            /\ pout.err.kind = "validation"
            /\ pout.secret.absent
            /\ pout.err.msg[1] \in {"data contains an empty key", "data is not valid base64"}
            /\ NamesInvalidKey(pin, pout.err.msg)
    /\ (UpsertApplied /\ ReachesValidation /\ BadDataOnly(Effective)) =>
            /\ pout.next.pc = "done"
            /\ pout.next.resp.status = 400
            /\ pout.next.resp.error[1] \in
                    {"data contains an empty key", "data is not valid base64"}
            /\ NamesInvalidKey(pin, pout.next.resp.error)
            /\ pout.next.pend.kind = "none"
            /\ \A n \in DOMAIN pout.next.issued :
                    pout.next.issued[n].kind \notin {"Create", "Update"}

\* an update whose data holds a valid and an invalid value is refused naming
\* the invalid one
C17_Witness ==
    /\ pout.tag = "update"
    /\ BadDataOnly(Effective)
    /\ \E k \in DOMAIN pin.data.kv : DecodeString(pin.data.kv[k]).err = NilErr
    /\ pout.next.resp.status = 400
    /\ pout.next.resp.error = <<"data is not valid base64", <<"x">>>>

\* the labels with the management label forced and every other one kept
Marked(kv) ==
    [k \in DOMAIN kv \cup {"managed-by"} |->
        IF k = "managed-by" THEN "kubeflow-secrets" ELSE kv[k]]

\* the map is none of the maps the payload arrived with
NotOfRequest(m) == m.alloc # "request"

\* the object carries the management label over the given labels and the
\* given annotations and stringData, in maps of its own
BuiltFrom(obj, labels, annotations, stringData) ==
    /\ obj.labels.kv = Marked(labels.kv)
    /\ ~obj.labels.nil /\ NotOfRequest(obj.labels)
    /\ obj.annotations.kv = annotations.kv /\ NotOfRequest(obj.annotations)
    /\ obj.stringData.kv = stringData.kv /\ NotOfRequest(obj.stringData)
    /\ NotOfRequest(obj.data)

\* the labels and annotations an update goes by: the caller's, or the read
\* secret's when the caller sent none
UpdateBase(sent, kept) == IF sent.nil THEN kept ELSE sent

\* C18: every object validateAndBuildSecret returns, and every object that
\* create or update sends to the backend, carries managed-by =
\* kubeflow-secrets whatever the caller supplied for that key; the caller's
\* other labels are kept, and the caller's label, annotation and stringData
\* maps are copied, neither aliased nor changed.
C18_LabelForcedMapsCopied ==
    /\ (ValidateApplied /\ pout.err = NilErr) =>
            BuiltFrom(pout.secret, pin.labels, pin.annotations, pin.stringData)
    /\ (pout.tag = "create" /\ pout.next.pc = "call") =>
            /\ pout.next.pend.kind = "Create"
            /\ BuiltFrom(pout.next.pend.obj, pin.labels, pin.annotations, pin.stringData)
            /\ pout.next.r.body = pin
    /\ (pout.tag = "update" /\ pout.next.pc = "call") =>
            /\ pout.next.pend.kind = "Update"
            /\ BuiltFrom(pout.next.pend.obj,
                         UpdateBase(pin.labels, pout.next.existing.labels),
                         UpdateBase(pin.annotations, pout.next.existing.annotations),
                         pin.stringData)
            /\ pout.next.r.body = pin

\* a create whose caller set managed-by to another value beside a label of
\* their own
C18_Witness ==
    /\ pout.tag = "create"
    /\ pout.next.pc = "call"
    /\ ~pin.labels.nil
    /\ DOMAIN pin.labels.kv = {"managed-by", "app"}
    /\ pin.labels.kv["managed-by"] = "other"
    /\ pout.next.pend.obj.labels.kv["managed-by"] = "kubeflow-secrets"
    /\ pout.next.pend.obj.labels.kv["app"] = pin.labels.kv["app"]
    /\ ~pin.annotations.nil

(***************************************************************************)
(* Claims about conflicting mutations                                      *)
(***************************************************************************)
\* the last backend call of the handler was a mutation that the backend
\* refused for conflicting state
MutationConflicted(h) ==
    /\ h.pc = "done"
    /\ h.issued # <<>>
    /\ LET last == h.issued[Len(h.issued)]
       IN  \/ last.kind = "Create" /\ last.err.kind = "alreadyExists"
           \/ last.kind = "Update" /\ last.err.kind = "conflict"

\* C19: whenever the backend reports conflicting state for a mutation (the
\* name exists already on create, or the version carried by an update is
\* stale), the gateway answers with HTTP 409.
C19_AsStated ==
    \A i \in DOMAIN reqs :
        MutationConflicted(reqs[i]) => reqs[i].resp.status = 409

\* the handler has sent its Update and been answered
Updated(h) ==
    /\ h.pc = "done"
    /\ h.op = "update"
    /\ h.issued # <<>>
    /\ h.issued[Len(h.issued)].kind = "Update"

\* the backend applied the handler's Update
AppliedUpdate(h) == Updated(h) /\ h.issued[Len(h.issued)].err.kind = "nil"

\* in this step the backend applies the Update that handler i has pending
Applies(i) ==
    /\ reqs[i].pc = "call"
    /\ reqs[i].pend.kind = "Update"
    /\ AppliedUpdate(reqs'[i])

\* every Update on its way carries the version of the object its request read
CarriesReadVersion ==
    \A i \in DOMAIN reqs :
        reqs[i].pend.kind = "Update" =>
            /\ ~reqs[i].existing.absent
            /\ reqs[i].existing.resourceVersion # 0
            /\ reqs[i].pend.obj.resourceVersion = reqs[i].existing.resourceVersion

\* of two updates of one secret that read the same version at most one is
\* applied, and the other is answered with an error
AtMostOneApplied ==
    \A i, j \in DOMAIN reqs :
        (/\ i # j
         /\ Updated(reqs[i]) /\ Updated(reqs[j])
         /\ reqs[i].existing.resourceVersion = reqs[j].existing.resourceVersion
         /\ AppliedUpdate(reqs[i])) =>
            /\ ~AppliedUpdate(reqs[j])
            /\ reqs[j].resp.status >= 400
            /\ reqs[j].resp.error # ""

\* C20: lost updates are detected: every update sent to the backend carries
\* the version of the object the same request read; of two updates of one
\* secret that read the same version and interleave, at most one is applied
\* and the other is answered with an error; an update is applied only to the
\* version its request read.
C20_LostUpdatesDetected ==
    /\ [](CarriesReadVersion /\ AtMostOneApplied)
    /\ [][\A i \in DOMAIN reqs :
            Applies(i) =>
                Lookup(reqs[i].pend.namespace, reqs[i].pend.name).resourceVersion
                    = reqs[i].existing.resourceVersion]_vars

\* both handlers read version 1; the first update was applied and the second
\* was refused for its stale version
C20_Witness ==
    /\ AppliedUpdate(reqs[1])
    /\ Updated(reqs[2])
    /\ reqs[1].existing.resourceVersion = 1
    /\ reqs[2].existing.resourceVersion = 1
    /\ reqs[2].issued[Len(reqs[2].issued)].err.kind = "conflict"
    /\ reqs[2].resp.status >= 400

(***************************************************************************)
(* Claims about updates                                                    *)
(***************************************************************************)
\* PUT /api/secrets/{name}
UpdateRequested(h) ==
    h.r.route = "secretByName" /\ h.r.method = "PUT" /\ ~h.r.path.err /\ h.r.path.sub = ""

\* the payload names a secret other than the one of the path
PayloadOtherName(h) ==
    /\ UpdateRequested(h)
    /\ ~h.r.body.bad
    /\ TrimSpace(h.r.body.name) # <<>>
    /\ TrimSpace(h.r.body.name) # h.r.path.name

\* every Update, pending or issued, is for the secret of the path in the
\* namespace resolved for the request
UpdatesPathSecret(h) ==
    /\ h.pend.kind = "Update" =>
          /\ UpdateRequested(h)
          /\ h.pend.name = h.r.path.name /\ h.pend.obj.name = h.r.path.name
          /\ h.pend.namespace = h.ns /\ h.pend.obj.namespace = h.ns
          /\ Contains(h.allowed, h.ns)
    /\ \A c \in Calls(h) :
          c.kind = "Update" =>
              /\ UpdateRequested(h)
              /\ c.name = h.r.path.name /\ c.namespace = h.ns
              /\ Contains(h.allowed, h.ns)

\* every stored secret has the name and namespace it is stored under
StoredUnderOwnName ==
    \A k \in DOMAIN secrets :
        ~secrets[k].absent => secrets[k].namespace = k[1] /\ secrets[k].name = k[2]

NameMismatch ==
    [status |-> 400, error |-> "secret name in payload does not match path",
     body |-> NoBody]

\* C21, as stated: the object of an Update has the name of the path and the
\* namespace resolved for the request, and a payload name that is non-blank
\* and differs from the path name is answered 400 with no Update issued.
C21_AsStated ==
    \A i \in DOMAIN reqs :
        LET h == reqs[i]
        IN  /\ UpdatesPathSecret(h)
            /\ PayloadOtherName(h) =>
                  /\ NoWrite(h)
                  /\ (h.pc = "done" /\ ReadManaged(h)) => h.resp.status = 400

\* C21, amended: the object of an Update has the name of the path and the
\* namespace resolved for the request; a payload name that is non-blank and
\* differs from the path name never leads to an Update, and is answered 400
\* once the managed secret has been read, unless the payload also names
\* another namespace, which is answered 403 first.
C21_PathIsAuthoritative ==
    /\ StoredUnderOwnName
    /\ \A i \in DOMAIN reqs :
        LET h == reqs[i]
        IN  /\ UpdatesPathSecret(h)
            /\ PayloadOtherName(h) =>
                  /\ NoWrite(h)
                  /\ (h.pc = "done" /\ ReadManaged(h)) =>
                        IF PayloadElsewhere(h) THEN h.resp = CrossNamespace
                        ELSE h.resp = NameMismatch

\* a PUT whose payload names another secret, refused after the read
C21_Witness ==
    \E i \in DOMAIN reqs :
        /\ reqs[i].pc = "done"
        /\ PayloadOtherName(reqs[i])
        /\ ReadManaged(reqs[i])
        /\ reqs[i].resp = NameMismatch

\* an update request has run up to its Update call
UpdateReady == pout.tag = "update" /\ pout.next.pc = "call" /\ pout.next.pend.kind = "Update"

\* C22: on update, when the payload omits labels (annotations), the object
\* sent to the backend carries the labels (annotations) of the existing
\* remote object, the management label set; labels and annotations are
\* replaced by the payload's only when the payload supplies them.
C22_OmittedMetadataCarried ==
    UpdateReady =>
        LET obj == pout.next.pend.obj
            existing == pout.next.existing
        IN  /\ obj.labels.kv["managed-by"] = "kubeflow-secrets"
            /\ IF pin.labels.nil
               THEN obj.labels.kv = Marked(existing.labels.kv)
               ELSE obj.labels.kv = Marked(pin.labels.kv)
            /\ IF pin.annotations.nil
               THEN obj.annotations = [existing.annotations EXCEPT !.alloc = "made"]
               ELSE obj.annotations.kv = pin.annotations.kv /\ ~obj.annotations.nil

\* an update without labels and annotations keeps the read secret's label
\* team and annotation kept
C22_Witness ==
    /\ UpdateReady
    /\ pin.labels.nil /\ pin.annotations.nil
    /\ pout.next.pend.obj.labels.kv["team"] = "t"
    /\ pout.next.pend.obj.annotations.kv["kept"] = "k"

(***************************************************************************)
(* Claims about the namespace in use                                       *)
(***************************************************************************)
\* the namespace the request names: the first of the namespace and ns query
\* parameters and the two namespace headers that is not blank, trimmed
Named(r) ==
    IF TrimSpace(r.qNamespace) # <<>> THEN TrimSpace(r.qNamespace)
    ELSE IF TrimSpace(r.qNs) # <<>> THEN TrimSpace(r.qNs)
    ELSE IF TrimSpace(r.hXNamespace) # <<>> THEN TrimSpace(r.hXNamespace)
    ELSE TrimSpace(r.hNamespace)

\* the request went through resolution and its caller owns a namespace
Resolved(h) ==
    /\ OnSecrets(h)
    /\ \E c \in Calls(h) : c.kind = "ListProfiles" /\ c.err = NilErr
    /\ h.allowed # <<>>

Owned(h) == {h.allowed[k] : k \in 1..Len(h.allowed)}

NotOwned ==
    [status |-> 403, error |-> "requested namespace is not owned by current user",
     body |-> NoBody]

\* C23: when the request names no namespace, the namespace in use is the
\* lexicographically smallest owned namespace; when it names one, the
\* namespace in use is the named one if the caller owns it, and otherwise
\* the request is rejected with 403.
C23_NamespaceInUse ==
    \A i \in DOMAIN reqs :
        LET h == reqs[i]
        IN  Resolved(h) =>
                IF Named(h.r) = <<>>
                    THEN /\ h.ns \in Owned(h)
                         /\ \A n \in Owned(h) : n = h.ns \/ StrLess(h.ns, n)
                ELSE IF Named(h.r) \in Owned(h)
                    THEN h.ns = Named(h.r)
                ELSE /\ h.pc = "done"
                     /\ h.resp = NotOwned
                     /\ h.ns = <<>>
                     /\ SecretCallsOf(h) = {}

\* the caller owns two namespaces, names none and works in the smaller one
C23_Witness ==
    \E i \in DOMAIN reqs :
        /\ Resolved(reqs[i])
        /\ Cardinality(Owned(reqs[i])) = 2
        /\ Named(reqs[i].r) = <<>>
        /\ reqs[i].ns = <<"n", "1">>
        /\ \E c \in Calls(reqs[i]) : c.kind = "List" /\ c.namespace = <<"n", "1">>

(***************************************************************************)
(* Claims about the round trip                                             *)
(***************************************************************************)
\* standard base64 of the byte strings in use
Base64Of(bytes) ==
    CASE bytes = <<>> -> ""
      [] bytes = <<97>> -> "YQ=="
      [] bytes = <<98>> -> "Yg=="
      [] bytes = <<255>> -> "/w=="

\* the bytes of the texts in use
BytesOf(text) ==
    CASE text = <<>> -> <<>>
      [] text = <<"a">> -> <<97>>
      [] text = <<"b">> -> <<98>>

\* the handler's create was applied
Created(h) == h.pc = "done" /\ h.op = "create" /\ h.resp.status = 201

\* the handler's get was answered with the secret
Got(h) == h.pc = "done" /\ h.op = "get" /\ h.resp.status = 200

\* the answer holds the base64 of each stored value, and as text exactly the
\* stored values that are valid UTF-8
ShowsStored(detail, stored) ==
    /\ DOMAIN detail.data.kv = DOMAIN stored.data.kv
    /\ \A k \in DOMAIN stored.data.kv :
          detail.data.kv[k] = Base64Of(stored.data.kv[k])
    /\ DOMAIN detail.stringData.kv =
          {k \in DOMAIN stored.data.kv : stored.data.kv[k] # <<255>>}
    /\ \A k \in DOMAIN detail.stringData.kv :
          BytesOf(detail.stringData.kv[k]) = stored.data.kv[k]

\* C24: after a successful create with stringData {k: v}, a following get
\* of the same secret by the same caller returns data[k] = base64(v) and
\* stringData[k] = v; every get response holds in data the base64 of each
\* stored value and in stringData exactly the keys whose stored value is
\* valid UTF-8.
C24_RoundTrip ==
    \A j \in DOMAIN reqs :
        Got(reqs[j]) =>
            LET detail == reqs[j].resp.body.detail
            IN  /\ ShowsStored(detail, secrets[<<detail.namespace, detail.name>>])
                /\ \E i \in DOMAIN reqs :
                      /\ Created(reqs[i])
                      /\ \A k \in DOMAIN reqs[i].r.body.stringData.kv :
                            /\ k \in DOMAIN detail.data.kv
                            /\ detail.data.kv[k] =
                                  Base64Of(BytesOf(reqs[i].r.body.stringData.kv[k]))
                            /\ k \in DOMAIN detail.stringData.kv
                            /\ detail.stringData.kv[k] = reqs[i].r.body.stringData.kv[k]

\* created with stringData x = b and no data, and read back
C24_Witness ==
    /\ Created(reqs[1])
    /\ reqs[1].r.body.data.nil
    /\ reqs[1].r.body.stringData.kv = (<<"x">> :> <<"b">>)
    /\ Got(reqs[2])
    /\ reqs[2].resp.body.detail.data.kv = (<<"x">> :> "Yg==")
    /\ reqs[2].resp.body.detail.stringData.kv = (<<"x">> :> <<"b">>)

(***************************************************************************)
(* Claims about requests over time                                         *)
(***************************************************************************)
\* the request carries a user and is one that goes on to resolution
ReachesResolution(h) ==
    /\ h.pc # "idle"
    /\ TrimSpace(h.r.userHeader) # <<>>
    /\ h.r.route = "namespaces" => h.r.method = "GET"

ListsOf(h) == {k \in 1..Len(h.issued) : h.issued[k].kind = "ListProfiles"}

\* the request lists the ownership records once, issues no call twice, and
\* ends at the first call that fails, with an error response
OneListNoRetry(h) ==
    /\ Cardinality(ListsOf(h)) = (IF ReachesResolution(h) THEN 1 ELSE 0)
    /\ \A k, l \in 1..Len(h.issued) : h.issued[k].kind = h.issued[l].kind => k = l
    /\ \A k \in 1..Len(h.issued) :
          h.issued[k].err # NilErr =>
              /\ k = Len(h.issued)
              /\ h.pc = "done"
              /\ h.resp.status >= 400
              /\ h.resp.body = NoBody

\* no ownership record names a as its owner
OwnerRemoved ==
    \A ns \in DOMAIN profiles : profiles[ns] # [kind |-> "string", v |-> <<"a">>]

\* handler i takes a request of a in in this step, and the list it makes
\* succeeds
TakesIn(i) ==
    /\ reqs[i].pc = "idle"
    /\ reqs'[i].pc # "idle"
    /\ TrimSpace(reqs'[i].r.userHeader) = <<"a">>
    /\ \E c \in Calls(reqs'[i]) : c.kind = "ListProfiles" /\ c.err = NilErr

AllowedTransition(c) ==
    CASE c.kind = "Create" -> c.hit = "absent"
      [] c.kind = "Update" -> c.hit = "managed"
      [] c.kind = "Delete" -> c.hit = "managed"
      [] OTHER -> TRUE

\* C26: per secret name the gateway causes only absent -> managed (create),
\* managed -> managed (update) and managed -> absent (delete); a create for a
\* name that exists, managed or not, is answered 409 "already exists" and
\* changes nothing; an update or delete of an absent name is answered 404
\* and creates nothing.
C26_AsStated ==
    \A i \in DOMAIN reqs :
        LET h == reqs[i]
        IN  /\ \A c \in Calls(h) :
                  /\ c.err = NilErr => AllowedTransition(c)
                  /\ (c.kind = "Create" /\ c.err.kind = "alreadyExists") =>
                        /\ c.hit # "absent"
                        /\ h.pc = "done"
                        /\ h.resp = [status |-> 409, error |-> "already exists",
                                     body |-> NoBody]
            /\ (/\ h.op \in {"update", "delete"}
                /\ \E c \in Calls(h) :
                      c.kind = "Get" /\ c.hit = "absent" /\ c.err.kind = "notFound") =>
                    /\ h.pc = "done"
                    /\ h.resp = NotFound
                    /\ \A c \in Calls(h) : c.kind \notin {"Create", "Update", "Delete"}

(***************************************************************************)
(* Claims about requests rejected by the gateway itself                    *)
(***************************************************************************)
Mutations == {"Create", "Update", "Delete"}

\* the request was refused by the gateway itself: answered with an error
\* that no failed backend call gave rise to, or with the 404 of a secret that
\* the read found absent or without the management label
RejectedLocally(h) ==
    /\ h.pc = "done"
    /\ h.resp.status \in {400, 401, 403, 404, 405}
    /\ \A c \in Calls(h) :
          \/ c.err = NilErr
          \/ c.kind = "Get" /\ c.err.kind = "notFound" /\ c.hit = "absent"

\* the read of an update found no managed secret
UpdateOfNoManaged(h) ==
    /\ h.pc = "done"
    /\ h.op = "update"
    /\ \E c \in Calls(h) :
          /\ c.kind = "Get"
          /\ c.hit \in {"absent", "unmanaged"}
          /\ c.err.kind \in {"nil", "notFound"}

\* C27: a request that the gateway rejects locally (401, 403, 400, 404 not
\* managed, 405) issues no Create, Update or Delete call, and the step that
\* rejects it leaves the backend's secrets as they are; an update of an
\* absent or unmanaged secret is answered 404 whatever its payload, the
\* managed-secret check coming before the payload is read.
C27_LocalRejectionsTouchNothing ==
    /\ [](\A i \in DOMAIN reqs :
            /\ RejectedLocally(reqs[i]) =>
                  \A c \in Calls(reqs[i]) : c.kind \notin Mutations
            /\ UpdateOfNoManaged(reqs[i]) =>
                  /\ reqs[i].resp = NotFound
                  /\ \A c \in Calls(reqs[i]) : c.kind \notin Mutations)
    /\ [][\A i \in DOMAIN reqs :
            (reqs[i].pc # "done" /\ RejectedLocally(reqs'[i])) => secrets' = secrets]_vars

\* an update with a body that is no JSON, of a secret without the label:
\* answered 404, not 400
C27_Witness ==
    \E i \in DOMAIN reqs :
        /\ UpdateOfNoManaged(reqs[i])
        /\ reqs[i].r.body.bad
        /\ \E c \in Calls(reqs[i]) : c.kind = "Get" /\ c.hit = "unmanaged"
        /\ reqs[i].resp = NotFound
        /\ ~secrets[<<<<"n", "1">>, <<"s">>>>].absent

(***************************************************************************)
(* Claims about the error mapping                                          *)
(***************************************************************************)
\* the classification: status and message by the kind of the error, a 500
\* carrying the fallback text and the error
Classified(kind, fallback) ==
    CASE kind = "notManaged" -> [status |-> 404, error |-> "not found"]
      [] kind = "forbidden" -> [status |-> 403, error |-> "forbidden"]
      [] kind = "alreadyExists" -> [status |-> 409, error |-> "already exists"]
      [] kind = "notFound" -> [status |-> 404, error |-> "not found"]
      [] kind = "unauthorized" -> [status |-> 401, error |-> "unauthorized"]
      [] kind = "nil" -> [status |-> 200, error |-> ""]
      [] OTHER -> [status |-> 500, error |-> <<fallback, kind>>]

\* C28: mapKubeError classifies every error: not-managed -> 404 "not found",
\* forbidden -> 403, already-exists -> 409, not-found -> 404, unauthorized
\* -> 401, every other non-nil error -> 500 with the fallback text as
\* context; a non-nil error is never mapped to a 2xx status; the no-profile
\* error is mapped to 403 before the classification is applied.
C28_ErrorClassification ==
    /\ pout.tag = "mapKube" =>
          /\ pout.reply = Classified(pin.err.kind, pin.fallback)
          /\ pin.err # NilErr => pout.reply.status \notin 200..299
    /\ pout.tag = "mapResolution" =>
          /\ pout.reply =
                (IF pin.err.kind = "profileNotFound"
                 THEN [status |-> 403, error |-> "no kubeflow profile found for user"]
                 ELSE Classified(pin.err.kind, "failed to resolve user namespace"))
          /\ pin.err # NilErr => pout.reply.status \notin 200..299

\* an unauthorized update is answered 401, not with the fallback
C28_Witness ==
    /\ pout.tag = "mapKube"
    /\ pin.err.kind = "unauthorized"
    /\ pin.fallback = "failed to update secret"
    /\ pout.reply = [status |-> 401, error |-> "unauthorized"]

(***************************************************************************)
(* Claims about malformed ownership records                                *)
(***************************************************************************)
\* the record can contribute its namespace: a name that is not blank and an
\* owner that is a string and not blank
WellFormed(record) ==
    /\ TrimSpace(record.name) # <<>>
    /\ record.owner.kind = "string"
    /\ TrimSpace(record.owner.v) # <<>>

\* the names of the well-formed records
WellFormedNames(items) ==
    {TrimSpace(items[i].name) : i \in {j \in 1..Len(items) : WellFormed(items[j])}}

\* some record carries a spec.owner.name that is no string
SomeNonString(items) == \E i \in 1..Len(items) : items[i].owner.kind = "nonstring"

\* some record with a name carries a spec.owner.name that is no string
SomeNamedNonString(items) ==
    \E i \in 1..Len(items) :
        items[i].owner.kind = "nonstring" /\ TrimSpace(items[i].name) # <<>>

\* the resolution failed on the type of a field, for whoever called
FailedOnType ==
    /\ pout.err.kind = "nestedString"
    /\ pout.namespaces = <<>>
    /\ pout.reply.status = 500

\* only well-formed records contribute, and the others raise no error
SkipsMalformed ==
    /\ pout.err.kind \in {"nil", "profileNotFound"}
    /\ Elements(pout.namespaces) \subseteq WellFormedNames(pin.listed.items)

\* C29, as stated: a record with a blank name or without spec.owner.name is
\* skipped, a record with a blank owner matches no caller, and a single
\* record whose spec.owner.name is no string makes the resolution fail for
\* every caller.
C29_AsStated ==
    (ResolveApplied /\ pin.listed.err = NilErr) =>
        IF SomeNonString(pin.listed.items) THEN FailedOnType ELSE SkipsMalformed

\* C29, amended: the same, the failing record being one whose name is not
\* blank: a record with a blank name is skipped before its owner is looked
\* at, whatever the type of the owner.
C29_MalformedRecords ==
    (ResolveApplied /\ pin.listed.err = NilErr) =>
        IF SomeNamedNonString(pin.listed.items) THEN FailedOnType ELSE SkipsMalformed

\* the caller owns a well-formed record, listed before a record whose owner
\* is no string: the resolution fails
C29_Witness ==
    /\ ResolveApplied
    /\ pin.user = <<"a">>
    /\ Len(pin.listed.items) = 2
    /\ pin.listed.items[1] = [name |-> <<"n", "1">>,
                              owner |-> [kind |-> "string", v |-> <<"a">>]]
    /\ pin.listed.items[2].owner.kind = "nonstring"
    /\ TrimSpace(pin.listed.items[2].name) # <<>>
    /\ FailedOnType

(***************************************************************************)
(* Claims about the frontend component                                     *)
(***************************************************************************)
NoCallInFlight ==
    /\ pout.bootstrap.pc \in {"idle", "done"}
    /\ pout.external.pc = "idle"
    /\ pout.refreshes = <<>>

SelectedWasReturned == pin.namespace = <<>> \/ pin.namespace \in pout.returned

DisplayedIsOfSelected ==
    IF pin.namespace = <<>> THEN pin.secrets = <<>> ELSE pout.listedFor = {pin.namespace}

\* C30, as stated: under any interleaving of the start of the page, refreshes
\* and namespace selections with the answers of their calls, the selected
\* namespace is empty or one the API returned for the caller, and whenever no
\* call is in flight the list on display is the answer of a list call made
\* for the selected namespace.
C30_AsStated == SelectedWasReturned /\ (NoCallInFlight => DisplayedIsOfSelected)

\* C30, the first half alone: the selected namespace is empty or one the API
\* returned for the caller.
C30_SelectedNamespaceReturned == SelectedWasReturned

====
